---- MODULE Spec2Model ----
(***************************************************************************)
(* IronLog persistence and session-timing core.                            *)
(*                                                                         *)
(*   Spec      the Timer class driven through its public API with a        *)
(*             recording state-change observer (timer.py, test_timer.py)   *)
(*   SpecView  the SessionView that owns a Timer, persists every snapshot  *)
(*             under the app_state key timer_state and schedules the       *)
(*             display refresh (session.py, repositories.py)               *)
(*   SpecKill  the SessionView handlers with process kills between the     *)
(*             statements of _end_workout (session.py)                     *)
(*   SpecSession  the session view and the exercise view of a workout that *)
(*             is under way (session.py, exercise_detail.py)               *)
(*   SpecDb    the Database transaction scope, the app_state key-value     *)
(*             repository and the migration engine (db.py, migrations.py)  *)
(*   SpecState the app_state repository of a running app with texts of     *)
(*             any kind under the key timer_state (repositories.py)        *)
(*   SpecRepo  the template and session repositories driven through their  *)
(*             public API (repositories.py, test_repositories.py)          *)
(*   SpecApp   the handlers of the home tab, the templates tab and the     *)
(*             pushed views (home.py, templates.py, session.py,            *)
(*             exercise_detail.py, main.py, tabs.py)                       *)
(*                                                                         *)
(* Time is counted in clock ticks; TicksPerSecond ticks make one second,   *)
(* so that the int() truncation of elapsed_seconds is visible.             *)
(***************************************************************************)
EXTENDS Integers, Sequences, FiniteSets, TLC

\* ------------------------------------------------------------------ bounds
MaxClock == 3
TicksPerSecond == 2
MaxCalls == 4
MaxRestoreAcc == 1
MaxSessions == 2
MaxFaults == 1
MaxTemplates == 4
MaxOps == 3
MaxSessionExercises == 3
MaxSets == 2
KeptExercises == 2
MaxAppClock == 1
MaxRepoCalls == 2

\* Optional[...] fields hold None when unset
None == -1

VARIABLES
    now,        \* the wall clock, datetime.now(), in ticks
    state,      \* Timer._state
    call,       \* the last API call: its name, argument, return value, number of observer invocations
    observed,   \* what the on_state_change observer has received: count and last snapshot
    ghost,      \* specification-side bookkeeping, never read by the timer
    db,         \* Database: what is durable (disk) and what the one shared connection sees (conn)
    view,       \* the SessionView on screen, its timer_handle, the scheduled _timer_tick, the label
    ref,        \* a timer that gets the same calls as the view's timer but is never discarded
    app,        \* the process using the database: running or not, and how its last call ended
    expected,   \* app_state as the scopes that were left normally have written it
    mig,        \* the last apply_migrations run and the history of the database file
    ui,         \* the screen, the cached home tab content, the objects the views hold
    ids,        \* how many ids uuid4() has handed out, per kind of object, and how many
                \* handlers that create or edit an object have run (ops)
    last        \* the last repository call of a handler: its name, argument and result

timerVars == <<now, state, call, observed, ghost>>
viewVars  == <<now, state, db, view, ref>>
dbVars    == <<db, app, expected, mig>>
appVars   == <<now, state, db, view, ref, ui, ids, last>>
vars      == <<now, state, call, observed, ghost, db, view, ref, app, expected, mig,
               ui, ids, last>>

\* what the actions of one specification leave alone
TimerFrame == UNCHANGED <<db, view, ref, app, expected, mig, ui, ids, last>>
ViewFrame  == UNCHANGED <<call, observed, ghost, app, expected, mig>>
DbFrame    == UNCHANGED <<now, state, call, observed, ghost, view, ref, ui, ids, last>>

\* ------------------------------------------------------------- TimerState
TimerState(is_running, is_paused, start_time, pause_time, accumulated_seconds) ==
    [is_running |-> is_running, is_paused |-> is_paused, start_time |-> start_time,
     pause_time |-> pause_time, accumulated_seconds |-> accumulated_seconds]

initial == TimerState(FALSE, FALSE, None, None, 0)

is_running(s) == s.is_running /\ ~s.is_paused
is_paused(s)  == s.is_paused
is_stopped(s) == ~s.is_running

\* the paused branch is missing: the running formula is used while paused
calculate_elapsed_ignores_pause(s, t) ==
    IF ~s.is_running THEN s.accumulated_seconds
    ELSE IF s.start_time = None THEN s.accumulated_seconds
    ELSE s.accumulated_seconds + (t - s.start_time)

calculate_elapsed(s, t) ==
    IF ~s.is_running THEN s.accumulated_seconds
    ELSE IF s.is_paused THEN s.accumulated_seconds
    ELSE IF s.start_time = None THEN s.accumulated_seconds
    ELSE s.accumulated_seconds + (t - s.start_time)

\* int(): truncation to whole seconds (elapsed time is never negative here)
elapsed_seconds(s, t) == calculate_elapsed(s, t) \div TicksPerSecond

\* Each operation yields the new state, the snapshots handed to the
\* on_state_change observer, in order, and the return value.
Outcome(s, notes, ret) == [state |-> s, notes |-> notes, ret |-> ret]

\* the guard is missing: a second start() begins anew
start_unguarded(s, t) ==
    LET n == TimerState(TRUE, FALSE, t, None, 0)
    IN  Outcome(n, <<n>>, None)

start(s, t) ==
    IF s.is_running THEN Outcome(s, <<>>, None)
    ELSE LET n == TimerState(TRUE, FALSE, t, None, 0)
         IN  Outcome(n, <<n>>, None)

\* the observer is not told
pause_silent(s, t) ==
    IF ~s.is_running \/ s.is_paused THEN Outcome(s, <<>>, None)
    ELSE Outcome(TimerState(TRUE, TRUE, s.start_time, t, calculate_elapsed(s, t)), <<>>, None)

pause(s, t) ==
    IF ~s.is_running \/ s.is_paused THEN Outcome(s, <<>>, None)
    ELSE LET n == TimerState(TRUE, TRUE, s.start_time, t, calculate_elapsed(s, t))
         IN  Outcome(n, <<n>>, None)

\* the segment keeps the start_time of the segment before the pause
resume_keeps_start_time(s, t) ==
    IF ~s.is_paused THEN Outcome(s, <<>>, None)
    ELSE LET n == TimerState(TRUE, FALSE, s.start_time, None, s.accumulated_seconds)
         IN  Outcome(n, <<n>>, None)

resume(s, t) ==
    IF ~s.is_paused THEN Outcome(s, <<>>, None)
    ELSE LET n == TimerState(TRUE, FALSE, t, None, s.accumulated_seconds)
         IN  Outcome(n, <<n>>, None)

\* the state is reset before the elapsed time is read
stop_resets_first(s, t) ==
    Outcome(initial, <<initial>>, elapsed_seconds(initial, t))

stop(s, t) ==
    Outcome(initial, <<initial>>, elapsed_seconds(s, t))

\* the banked time of the snapshot is not taken over
restore_drops_accumulated(s, snapshot) ==
    Outcome([snapshot EXCEPT !.accumulated_seconds = 0], <<>>, None)

restore(s, snapshot) ==
    Outcome(snapshot, <<>>, None)

\* ------------------------------------------------- the three timer states
Kind(s) ==
    IF is_stopped(s) THEN "Stopped"
    ELSE IF is_paused(s) THEN "Paused"
    ELSE "Running"

\* snapshots a caller can hand to restore(): the snapshots a timer produces
Snapshots(t) ==
    {initial}
    \cup {TimerState(TRUE, FALSE, st, None, acc) : st \in 0..t, acc \in 0..MaxRestoreAcc}
    \cup {TimerState(TRUE, TRUE, p[1], p[2], acc) :
              p \in {q \in (0..t) \X (0..t) : q[1] <= q[2]}, acc \in 0..MaxRestoreAcc}

\* ------------------------------------------------------------ the observer
\* on_state_change as in test_timer_callbacks: state_changes.append(state)
Deliver(obs, notes) ==
    IF notes = <<>> THEN obs
    ELSE [count |-> obs.count + Len(notes), last |-> notes[Len(notes)]]

Called(op, arg, pre, r) ==
    [op |-> op, arg |-> arg, pre |-> pre, ret |-> r.ret, notified |-> Len(r.notes)]

\* ------------------------------------------------------------------ ghost
\* phase      the state the timer should be in by the documented state machine
\* tracked    TRUE from an effective start() until a restore()
\* total      ticks the clock advanced while phase was Running since that start()
\* plateau    elapsed_seconds read right after the call that paused the timer
\* changes    effective start/pause/resume/stop calls
\* restores   restore calls
\* idleStops  stop calls on a Stopped timer
\* calls      all calls
GhostInit ==
    [phase |-> "Stopped", tracked |-> FALSE, total |-> 0, plateau |-> None,
     changes |-> 0, restores |-> 0, idleStops |-> 0, calls |-> 0]

GhostStart(g) ==
    IF g.phase = "Stopped"
    THEN [g EXCEPT !.phase = "Running", !.tracked = TRUE, !.total = 0,
                   !.changes = @ + 1, !.calls = @ + 1]
    ELSE [g EXCEPT !.calls = @ + 1]

GhostPause(g, readElapsed) ==
    IF g.phase = "Running"
    THEN [g EXCEPT !.phase = "Paused", !.plateau = readElapsed,
                   !.changes = @ + 1, !.calls = @ + 1]
    ELSE [g EXCEPT !.calls = @ + 1]

GhostResume(g) ==
    IF g.phase = "Paused"
    THEN [g EXCEPT !.phase = "Running", !.plateau = None,
                   !.changes = @ + 1, !.calls = @ + 1]
    ELSE [g EXCEPT !.calls = @ + 1]

GhostStop(g) ==
    IF g.phase # "Stopped"
    THEN [g EXCEPT !.phase = "Stopped", !.plateau = None,
                   !.changes = @ + 1, !.calls = @ + 1]
    ELSE [g EXCEPT !.total = 0, !.idleStops = @ + 1, !.calls = @ + 1]

GhostRestore(g, snapshot, readElapsed) ==
    [g EXCEPT !.phase = Kind(snapshot), !.tracked = FALSE, !.total = 0,
              !.plateau = IF Kind(snapshot) = "Paused" THEN readElapsed ELSE None,
              !.restores = @ + 1, !.calls = @ + 1]

GhostAdvance(g, d) ==
    IF g.tracked /\ g.phase = "Running" THEN [g EXCEPT !.total = @ + d] ELSE g

\* ------------------------------------------------------ Spec: the Timer API
TimerInit ==
    /\ now = 0
    /\ state = initial
    /\ call = [op |-> "init", arg |-> None, pre |-> "Stopped", ret |-> None, notified |-> 0]
    /\ observed = [count |-> 0, last |-> None]
    /\ ghost = GhostInit

Start ==
    /\ ghost.calls < MaxCalls
    /\ LET r == start(state, now) IN
        /\ state' = r.state
        /\ observed' = Deliver(observed, r.notes)
        /\ call' = Called("start", None, Kind(state), r)
    /\ ghost' = GhostStart(ghost)
    /\ UNCHANGED now
    /\ TimerFrame

Pause ==
    /\ ghost.calls < MaxCalls
    /\ LET r == pause(state, now) IN
        /\ state' = r.state
        /\ observed' = Deliver(observed, r.notes)
        /\ call' = Called("pause", None, Kind(state), r)
        /\ ghost' = GhostPause(ghost, elapsed_seconds(r.state, now))
    /\ UNCHANGED now
    /\ TimerFrame

Resume ==
    /\ ghost.calls < MaxCalls
    /\ LET r == resume(state, now) IN
        /\ state' = r.state
        /\ observed' = Deliver(observed, r.notes)
        /\ call' = Called("resume", None, Kind(state), r)
    /\ ghost' = GhostResume(ghost)
    /\ UNCHANGED now
    /\ TimerFrame

Stop ==
    /\ ghost.calls < MaxCalls
    /\ LET r == stop(state, now) IN
        /\ state' = r.state
        /\ observed' = Deliver(observed, r.notes)
        /\ call' = Called("stop", None, Kind(state), r)
    /\ ghost' = GhostStop(ghost)
    /\ UNCHANGED now
    /\ TimerFrame

Restore ==
    /\ ghost.calls < MaxCalls
    /\ \E snapshot \in Snapshots(now) :
        LET r == restore(state, snapshot) IN
        /\ state' = r.state
        /\ observed' = Deliver(observed, r.notes)
        /\ call' = Called("restore", snapshot, Kind(state), r)
        /\ ghost' = GhostRestore(ghost, snapshot, elapsed_seconds(r.state, now))
    /\ UNCHANGED now
    /\ TimerFrame

\* the wall clock moves on; nothing in the timer is touched
Advance ==
    /\ now < MaxClock
    /\ now' = now + 1
    /\ ghost' = GhostAdvance(ghost, 1)
    /\ UNCHANGED <<state, call, observed>>
    /\ TimerFrame

TimerNext == Start \/ Pause \/ Resume \/ Stop \/ Restore \/ Advance

\* --------------------------------------------------------------- the store
\* Optional values handed to or returned by the repositories are sequences:
\* <<>> is None, <<x>> is x.
Nothing == <<>>
Some(x) == <<x>>

EmptyMap == [k \in {} |-> None]

EmptyStore ==
    [tables |-> {}, schema_version |-> {}, workout_templates |-> {},
     template_exercises |-> {}, workout_sessions |-> {}, session_exercises |-> {},
     sets |-> {}, app_state |-> EmptyMap]

\* Database.transaction(): body is the connection's view when the scope is
\* left, fault is how the scope is left.
\*   "none"           normal exit: conn.commit()
\*   "Exception"      caught by `except Exception`: conn.rollback(), re-raised
\*   "BaseException"  KeyboardInterrupt, SystemExit, ...: not caught by
\*                    `except Exception`; only the cursor is closed
transaction(d, body, fault) ==
    IF fault = "none" THEN [disk |-> body, conn |-> body]
    ELSE IF fault = "Exception" THEN [disk |-> d.disk, conn |-> d.disk]
    ELSE [disk |-> d.disk, conn |-> body]

\* ------------------------------------------------------ AppStateRepository
\* the statements, applied to the connection's view
app_get(st, key) ==
    IF key \in DOMAIN st.app_state THEN Some(st.app_state[key]) ELSE Nothing

app_upsert(st, key, value) ==
    [st EXCEPT !.app_state =
        [k \in (DOMAIN @) \cup {key} |-> IF k = key THEN value ELSE @[k]]]

app_delete(st, key) ==
    [st EXCEPT !.app_state = [k \in (DOMAIN @) \ {key} |-> @[k]]]

\* datetime.isoformat() / datetime.fromisoformat(): a non-empty string per instant
isoformat(t) == <<t>>
fromisoformat(str) == str[1]
null == <<>>

\* accumulated_seconds is written as 0
timer_state_json_without_accumulated(s) ==
    [is_running |-> s.is_running,
     is_paused |-> s.is_paused,
     start_time |-> IF s.start_time # None THEN isoformat(s.start_time) ELSE null,
     pause_time |-> IF s.pause_time # None THEN isoformat(s.pause_time) ELSE null,
     accumulated_seconds |-> 0]

\* json.dumps(data) in set_timer_state
timer_state_json(s) ==
    [is_running |-> s.is_running,
     is_paused |-> s.is_paused,
     start_time |-> IF s.start_time # None THEN isoformat(s.start_time) ELSE null,
     pause_time |-> IF s.pause_time # None THEN isoformat(s.pause_time) ELSE null,
     accumulated_seconds |-> s.accumulated_seconds]

set_timer_state(st, opt) ==
    IF opt = Nothing THEN app_delete(st, "timer_state")
    ELSE app_upsert(st, "timer_state", timer_state_json(opt[1]))

\* The text stored under a key. The text json.dumps writes for an object is
\* modelled by the record of its members; a text that is not the JSON of an
\* object by [text |-> its characters]. A string member is a sequence:
\* isoformat() gives the one-element sequences, so any longer sequence is a
\* string that fromisoformat does not accept.
is_iso(str) == Len(str) = 1

\* json.loads(value): raised is "JSONDecodeError" for a text that is not
\* JSON, type is the Python type of the value otherwise
json_loads(value) ==
    IF "text" \notin DOMAIN value THEN [raised |-> "none", type |-> "dict"]
    ELSE IF value.text = "[]" THEN [raised |-> "none", type |-> "list"]
    ELSE IF value.text = "null" THEN [raised |-> "none", type |-> "NoneType"]
    ELSE [raised |-> "JSONDecodeError", type |-> "none"]

\* the try block of get_timer_state: the exception that leaves it ("none":
\* the TimerState was built). data[...] of a value that is not a dict is a
\* TypeError, of a dict without the key a KeyError; fromisoformat of a
\* string that is no ISO timestamp is a ValueError.
timer_state_of_json(value) ==
    LET loaded == json_loads(value)
        fields == <<"is_running", "is_paused", "start_time", "pause_time",
                    "accumulated_seconds">>
        absent == {m \in 1..Len(fields) : fields[m] \notin DOMAIN value}
        \* the arguments are evaluated in the order they are written
        first_absent == CHOOSE m \in absent : \A other \in absent : m <= other
    IN  IF loaded.raised # "none" THEN loaded.raised
        ELSE IF loaded.type # "dict" THEN "TypeError"
        ELSE IF absent # {} /\ first_absent <= 3 THEN "KeyError"
        ELSE IF value.start_time # null /\ ~is_iso(value.start_time) THEN "ValueError"
        ELSE IF absent # {} /\ first_absent = 4 THEN "KeyError"
        ELSE IF value.pause_time # null /\ ~is_iso(value.pause_time) THEN "ValueError"
        ELSE IF absent # {} THEN "KeyError"
        ELSE "none"

\* the exception get_timer_state ends by: `except (json.JSONDecodeError,
\* KeyError)` catches two kinds, any other leaves the call
get_timer_state_raises(st) ==
    LET value == app_get(st, "timer_state") IN
    IF value = Nothing THEN "none"
    ELSE IF timer_state_of_json(value[1]) \in {"JSONDecodeError", "KeyError"} THEN "none"
    ELSE timer_state_of_json(value[1])

\* what get_timer_state returns (Nothing is also written where it raises)
get_timer_state(st) ==
    LET value == app_get(st, "timer_state") IN
    IF value = Nothing THEN Nothing
    ELSE IF timer_state_of_json(value[1]) # "none" THEN Nothing
    ELSE LET data == value[1] IN
         Some(TimerState(data.is_running,
                         data.is_paused,
                         IF data.start_time # null THEN fromisoformat(data.start_time) ELSE None,
                         IF data.pause_time # null THEN fromisoformat(data.pause_time) ELSE None,
                         data.accumulated_seconds))

\* ------------------------------------------------------------- SessionView
\* _on_timer_state_change: every snapshot the timer hands out is written
\* under the key timer_state in a transaction of its own
on_timer_state_change(d, notes) ==
    IF notes = <<>> THEN d
    ELSE transaction(d, set_timer_state(d.conn, Some(notes[Len(notes)])), "none")

\* _setup_timer: a new Timer, restored from the saved state if there is a
\* running one, started otherwise
setup_timer(d, t) ==
    LET saved == get_timer_state(d.conn) IN
    IF saved # Nothing /\ saved[1].is_running
    THEN restore(initial, saved[1])
    ELSE start(initial, t)

\* ------------------------------------------------------------------ queries
\* ORDER BY: the sequences in which a query can return its rows, the rows
\* given as <<key, row>> pairs; rows with equal keys come in any order
RECURSIVE order_by(_)
order_by(pairs) ==
    IF pairs = {} THEN {<<>>}
    ELSE LET firsts == {p \in pairs : \A q \in pairs : p[1] <= q[1]} IN
         UNION {{<<p[2]>> \o rest : rest \in order_by(pairs \ {p})} : p \in firsts}

\* ORDER BY ... DESC LIMIT 1: the rows fetchone() can return
latest(pairs) == {p[2] : p \in {q \in pairs : \A r \in pairs : r[1] <= q[1]}}

\* ------------------------------------------------------ SessionRepository
\* Rows hold ids and times as the values that str()/UUID() and the sqlite3
\* datetime adapter/converter carry to the column and back; NULL is None for
\* ids, times and numbers and <<>> for texts.
uuid4(used) == CHOOSE id \in 1..(Cardinality(used) + 1) : id \notin used

WorkoutSession_create(used, t, template_id, template_name) ==
    [id |-> uuid4(used), template_id |-> template_id, template_name |-> template_name,
     started_at |-> t, ended_at |-> None, duration_seconds |-> None, notes |-> Nothing,
     exercises |-> <<>>]

is_active(session) == session.ended_at = None

session_row(session) ==
    [id |-> session.id,
     template_id |-> IF session.template_id # None THEN session.template_id ELSE None,
     template_name |-> session.template_name,
     started_at |-> session.started_at, ended_at |-> session.ended_at,
     duration_seconds |-> session.duration_seconds, notes |-> session.notes]

\* the row is replaced (INSERT OR REPLACE): the old row is deleted, and ON
\* DELETE CASCADE takes the exercises and sets of the session with it
session_save_replaces_row(st, session) ==
    LET gone == {row.id : row \in {x \in st.session_exercises : x.session_id = session.id}}
    IN  [st EXCEPT !.workout_sessions = {row \in @ : row.id # session.id}
                                            \cup {session_row(session)},
                   !.session_exercises = {row \in @ : row.session_id # session.id},
                   !.sets = {row \in @ : row.session_exercise_id \notin gone}]

\* INSERT ... ON CONFLICT(id) DO UPDATE SET every column but id and started_at;
\* the exercises of the session object are not written
session_save(st, session) ==
    [st EXCEPT !.workout_sessions =
        {row \in @ : row.id # session.id}
        \cup {IF \E row \in @ : row.id = session.id
              THEN [session_row(session) EXCEPT !.started_at =
                        (CHOOSE row \in st.workout_sessions : row.id = session.id).started_at]
              ELSE session_row(session)}]

\* the UPDATE has no WHERE id = ?
end_session_of_all(st, session_id, duration_seconds, t) ==
    [st EXCEPT !.workout_sessions =
        {[row EXCEPT !.ended_at = t, !.duration_seconds = duration_seconds] : row \in @}]

\* UPDATE workout_sessions SET ended_at = datetime.now(), duration_seconds
\* WHERE id = ?
end_session(st, session_id, duration_seconds, t) ==
    [st EXCEPT !.workout_sessions =
        {IF row.id = session_id
         THEN [row EXCEPT !.ended_at = t, !.duration_seconds = duration_seconds]
         ELSE row : row \in @}]

\* DELETE FROM sets / session_exercises, with ON DELETE CASCADE
delete_set(st, set_id) ==
    [st EXCEPT !.sets = {row \in @ : row.id # set_id}]

delete_exercise(st, exercise_id) ==
    [st EXCEPT !.session_exercises = {row \in @ : row.id # exercise_id},
               !.sets = {row \in @ : row.session_exercise_id # exercise_id}]

\* the session row is deleted and nothing else
session_delete_row_only(st, session_id) ==
    [st EXCEPT !.workout_sessions = {row \in @ : row.id # session_id}]

\* DELETE FROM workout_sessions: ON DELETE CASCADE removes the session's
\* exercises, and with each of them its sets
session_delete(st, session_id) ==
    LET gone == {row.id : row \in {x \in st.session_exercises : x.session_id = session_id}}
    IN  [st EXCEPT !.workout_sessions = {row \in @ : row.id # session_id},
                   !.session_exercises = {row \in @ : row.session_id # session_id},
                   !.sets = {row \in @ : row.session_exercise_id \notin gone}]

\* _load_exercises, the inner query: the sets of one exercise ORDER BY created_at
load_sets(st, exercise_id) ==
    order_by({<<row.created_at, row>> :
                 row \in {x \in st.sets : x.session_exercise_id = exercise_id}})

SessionExercise_from_row(ex_row, sets) ==
    [id |-> ex_row.id, session_id |-> ex_row.session_id, name |-> ex_row.name,
     order_index |-> ex_row.order_index, uses_weight |-> ex_row.uses_weight # 0,
     sets |-> sets]

\* _load_exercises, the loop over the fetched exercise rows
RECURSIVE load_each(_, _)
load_each(st, ex_rows) ==
    IF ex_rows = <<>> THEN {<<>>}
    ELSE {<<SessionExercise_from_row(Head(ex_rows), sets)>> \o rest :
             sets \in load_sets(st, Head(ex_rows).id),
             rest \in load_each(st, Tail(ex_rows))}

\* _load_exercises: the exercises of a session ORDER BY order_index, each
\* with its sets
load_exercises(st, session_id) ==
    UNION {load_each(st, ex_rows) :
              ex_rows \in order_by({<<row.order_index, row>> :
                             row \in {x \in st.session_exercises : x.session_id = session_id}})}

row_to_session(row, exercises) ==
    [id |-> row.id,
     template_id |-> IF row.template_id # None THEN row.template_id ELSE None,
     template_name |-> row.template_name,
     started_at |-> row.started_at, ended_at |-> row.ended_at,
     duration_seconds |-> row.duration_seconds, notes |-> row.notes,
     exercises |-> exercises]

\* the sessions a query that fetched one of rows can return: {Nothing} if
\* there is no row
sessions_of(st, rows) ==
    IF rows = {} THEN {Nothing}
    ELSE UNION {{Some(row_to_session(row, exercises)) :
                    exercises \in load_exercises(st, row.id)} : row \in rows}

session_get_by_id(st, session_id) ==
    sessions_of(st, {row \in st.workout_sessions : row.id = session_id})

\* the query has no WHERE ended_at IS NULL
get_active_among_all(st) ==
    sessions_of(st, latest({<<row.started_at, row>> : row \in st.workout_sessions}))

\* get_active: WHERE ended_at IS NULL ORDER BY started_at DESC LIMIT 1
get_active(st) ==
    sessions_of(st, latest({<<row.started_at, row>> :
                               row \in {x \in st.workout_sessions : x.ended_at = None}}))

\* save_exercise: INSERT ... ON CONFLICT(id) DO UPDATE SET name, order_index,
\* uses_weight; the sets of the exercise object are not written
save_exercise(st, exercise) ==
    [st EXCEPT !.session_exercises =
        {row \in @ : row.id # exercise.id}
        \cup {[id |-> exercise.id,
               session_id |-> IF \E row \in @ : row.id = exercise.id
                              THEN (CHOOSE row \in st.session_exercises :
                                        row.id = exercise.id).session_id
                              ELSE exercise.session_id,
               name |-> exercise.name, order_index |-> exercise.order_index,
               uses_weight |-> IF exercise.uses_weight THEN 1 ELSE 0]}]

\* the query has no s.weight IS NOT NULL
get_last_weight_of_any_set(st, exercise_name) ==
    LET joined == {s \in st.sets :
                      \E se \in st.session_exercises :
                          se.id = s.session_exercise_id /\ se.name = exercise_name}
    IN  IF joined = {} THEN {None}
        ELSE {s.weight : s \in latest({<<s.created_at, s>> : s \in joined})}

\* get_last_weight_for_exercise: sets JOIN session_exercises WHERE se.name = ?
\* AND s.weight IS NOT NULL ORDER BY s.created_at DESC LIMIT 1; the weights
\* the call can return, None if there is no row
get_last_weight_for_exercise(st, exercise_name) ==
    LET joined == {s \in st.sets :
                      /\ s.weight # None
                      /\ \E se \in st.session_exercises :
                            se.id = s.session_exercise_id /\ se.name = exercise_name}
    IN  IF joined = {} THEN {None}
        ELSE {s.weight : s \in latest({<<s.created_at, s>> : s \in joined})}

\* FOREIGN KEY (session_id) REFERENCES workout_sessions(id), checked by the INSERT
save_exercise_raises(st, exercise) ==
    /\ ~\E row \in st.session_exercises : row.id = exercise.id
    /\ ~\E row \in st.workout_sessions : row.id = exercise.session_id

\* save_set: INSERT ... ON CONFLICT(id) DO UPDATE SET reps, weight
save_set(st, workout_set) ==
    [st EXCEPT !.sets =
        {row \in @ : row.id # workout_set.id}
        \cup {IF \E row \in @ : row.id = workout_set.id
              THEN [(CHOOSE row \in st.sets : row.id = workout_set.id)
                        EXCEPT !.reps = workout_set.reps, !.weight = workout_set.weight]
              ELSE workout_set}]

\* FOREIGN KEY (session_exercise_id) REFERENCES session_exercises(id)
save_set_raises(st, workout_set) ==
    /\ ~\E row \in st.sets : row.id = workout_set.id
    /\ ~\E row \in st.session_exercises : row.id = workout_set.session_exercise_id

\* FOREIGN KEY (template_id) REFERENCES workout_templates(id), checked by
\* the INSERT and by the UPDATE of SessionRepository.save
session_save_raises(st, session) ==
    /\ session.template_id # None
    /\ ~\E row \in st.workout_templates : row.id = session.template_id

\* ----------------------------------------------------- TemplateRepository
WorkoutTemplate_create(used, name, t) ==
    [id |-> uuid4(used), name |-> name, created_at |-> t, exercises |-> <<>>]

TemplateExercise_create(used, template_id, name, order_index, uses_weight) ==
    [id |-> uuid4(used), template_id |-> template_id, name |-> name,
     order_index |-> order_index, uses_weight |-> uses_weight]

\* uses_weight is not read from the row
TemplateExercise_from_row_weighted(ex_row) ==
    [id |-> ex_row.id, template_id |-> ex_row.template_id, name |-> ex_row.name,
     order_index |-> ex_row.order_index, uses_weight |-> TRUE]

TemplateExercise_from_row(ex_row) ==
    [id |-> ex_row.id, template_id |-> ex_row.template_id, name |-> ex_row.name,
     order_index |-> ex_row.order_index, uses_weight |-> ex_row.uses_weight # 0]

\* the rows TemplateRepository.save inserts for template.exercises
template_exercise_rows(template) ==
    {[id |-> template.exercises[i].id,
      template_id |-> template.id,
      name |-> template.exercises[i].name,
      order_index |-> template.exercises[i].order_index,
      uses_weight |-> IF template.exercises[i].uses_weight THEN 1 ELSE 0] :
        i \in 1..Len(template.exercises)}

\* the exercises are inserted without the DELETE of the rows that were there
template_save_keeps_old_rows(st, template) ==
    [st EXCEPT
        !.workout_templates =
            IF \E row \in @ : row.id = template.id
            THEN {IF row.id = template.id THEN [row EXCEPT !.name = template.name] ELSE row :
                     row \in @}
            ELSE @ \cup {[id |-> template.id, name |-> template.name,
                          created_at |-> template.created_at]},
        !.template_exercises =
            {row \in @ : row.id \notin {x.id : x \in template_exercise_rows(template)}}
            \cup template_exercise_rows(template)]

\* TemplateRepository.save: INSERT ... ON CONFLICT(id) DO UPDATE SET name;
\* DELETE FROM template_exercises WHERE template_id; INSERT each exercise
template_save(st, template) ==
    [st EXCEPT
        !.workout_templates =
            IF \E row \in @ : row.id = template.id
            THEN {IF row.id = template.id THEN [row EXCEPT !.name = template.name] ELSE row :
                     row \in @}
            ELSE @ \cup {[id |-> template.id, name |-> template.name,
                          created_at |-> template.created_at]},
        !.template_exercises =
            {row \in @ : row.template_id # template.id} \cup template_exercise_rows(template)]

\* template_exercises.id is the primary key
template_save_raises(st, template) ==
    \/ \E i, j \in 1..Len(template.exercises) :
          i # j /\ template.exercises[i].id = template.exercises[j].id
    \/ \E row \in st.template_exercises :
          /\ row.template_id # template.id
          /\ \E i \in 1..Len(template.exercises) : template.exercises[i].id = row.id

\* the template row is deleted and nothing else
template_delete_without_actions(st, template_id) ==
    [st EXCEPT !.workout_templates = {row \in @ : row.id # template_id}]

\* DELETE FROM workout_templates: ON DELETE CASCADE removes the template's
\* exercises, ON DELETE SET NULL clears template_id of its sessions
template_delete(st, template_id) ==
    [st EXCEPT
        !.workout_templates = {row \in @ : row.id # template_id},
        !.template_exercises = {row \in @ : row.template_id # template_id},
        !.workout_sessions =
            {IF row.template_id = template_id THEN [row EXCEPT !.template_id = None] ELSE row :
                row \in @}]

\* get_by_id: the templates the two queries can return, {Nothing} if there is no row
template_get_by_id(st, template_id) ==
    LET rows == {row \in st.workout_templates : row.id = template_id} IN
    IF rows = {} THEN {Nothing}
    ELSE UNION {{Some([id |-> row.id, name |-> row.name, created_at |-> row.created_at,
                      exercises |-> [i \in 1..Len(ex_rows) |->
                                        TemplateExercise_from_row(ex_rows[i])]]) :
                    ex_rows \in order_by({<<x.order_index, x>> :
                                   x \in {y \in st.template_exercises :
                                             y.template_id = template_id}})} :
                  row \in rows}

\* get_all: the lists the queries can return, each as the set of its
\* templates (the order of the list, ORDER BY name, is for display only)
template_get_all(st) ==
    LET template_ids == {row.id : row \in st.workout_templates}
        loads == UNION {template_get_by_id(st, id) : id \in template_ids}
    IN  {{f[id][1] : id \in template_ids} :
            f \in {g \in [template_ids -> loads] :
                      \A id \in template_ids : g[id] \in template_get_by_id(st, id)}}

\* the copy loop of duplicate, from original.exercises[i] on
RECURSIVE copy_exercises(_, _, _, _)
copy_exercises(new_template, original, used, i) ==
    IF i > Len(original.exercises) THEN new_template
    ELSE LET ex == original.exercises[i]
             new_ex == TemplateExercise_create(used, new_template.id, ex.name,
                                               ex.order_index, ex.uses_weight)
         IN  copy_exercises([new_template EXCEPT !.exercises = Append(@, new_ex)],
                            original, used \cup {new_ex.id}, i + 1)

\* the new template gets the exercise objects of the original
duplicate_shares_exercises(original, new_name, t, used_templates, used_exercises) ==
    [WorkoutTemplate_create(used_templates, new_name, t)
        EXCEPT !.exercises = original.exercises]

\* duplicate, after get_by_id has returned original: the new template that
\* is saved and returned
duplicate(original, new_name, t, used_templates, used_exercises) ==
    copy_exercises(WorkoutTemplate_create(used_templates, new_name, t),
                   original, used_exercises, 1)

set_active_session_id(st, opt) ==
    IF opt = Nothing THEN app_delete(st, "active_session_id")
    ELSE app_upsert(st, "active_session_id", opt[1])

\* every repository call of the views is a transaction that ends normally
commit(d, body) == transaction(d, body, "none")

NoView ==
    [open |-> FALSE, session_id |-> None, timer_handle |-> FALSE, pending |-> FALSE,
     label |-> None, event |-> "none"]

NoCall == [op |-> "none", arg |-> Nothing, ret |-> Nothing]

NoIds ==
    [templates |-> 0, template_exercises |-> 0, sessions |-> 0,
     session_exercises |-> 0, sets |-> 0, ops |-> 0]

\* create_home_tab: the contents the home tab can get, the card of the
\* active session if get_active() returns one, the quick start section with
\* a button per template of get_all() otherwise
create_home_tab(st) ==
    UNION {IF active_session # Nothing
           THEN {[active |-> Some(active_session[1].id), templates |-> {}]}
           ELSE {[active |-> Nothing, templates |-> templates] :
                    templates \in template_get_all(st)} :
             active_session \in get_active(st)}

\* the screen shows the tab bar ("tabs") or a pushed view; the home tab
\* keeps the content it was given (TabBar.select_tab builds a tab's content
\* only if it has none); a pushed view holds what it loaded when it was built
Screen(screen, home) ==
    [screen |-> screen, home |-> home, template |-> Nothing, name_input |-> "",
     session |-> Nothing, exercise |-> Nothing]

NoUi == Screen("none", [active |-> Nothing, templates |-> {}])

\* navigate_to_session: SessionView.__init__ (refresh_session, _setup_timer)
\* and create_view (the label, then _start_timer_updates; only a label "not
\* found" if the session is gone). The label holds the elapsed seconds that
\* formatted_time prints. The reference timer is started when the view's
\* timer is, and is left alone when the view's timer is restored.
navigate_to_session(d, session_id, event) ==
    LET r == setup_timer(d, now)
        saved == get_timer_state(d.conn)
    IN
    /\ state' = r.state
    /\ db' = on_timer_state_change(d, r.notes)
    /\ ref' = IF saved # Nothing /\ saved[1].is_running THEN ref ELSE start(ref, now).state
    /\ \E session \in session_get_by_id(d.conn, session_id) :
        /\ ui' = [Screen("session", ui.home) EXCEPT !.session = session]
        /\ view' = [open |-> TRUE,
                    session_id |-> session_id,
                    \* None in the new view, so call_later is called
                    timer_handle |-> session # Nothing,
                    pending |-> session # Nothing,
                    label |-> IF session # Nothing THEN elapsed_seconds(r.state, now) ELSE None,
                    event |-> event]

\* home: start_empty_workout, a button of the quick start section
StartWorkout ==
    /\ ui.screen = "tabs"
    /\ ui.home.active = Nothing
    /\ ids.sessions < MaxSessions
    /\ ids.ops < MaxOps
    /\ LET session == WorkoutSession_create(1..ids.sessions, now, None, Nothing)
           d1 == commit(db, session_save(db.conn, session))
           d2 == commit(d1, set_active_session_id(d1.conn, Some(session.id)))
       IN  /\ navigate_to_session(d2, session.id, "start")
           /\ last' = [op |-> "session_save", arg |-> Some(session), ret |-> Nothing]
    /\ ids' = [ids EXCEPT !.sessions = @ + 1, !.ops = @ + 1]
    /\ UNCHANGED now
    /\ ViewFrame

\* home: on_continue of the active session card
ContinueWorkout ==
    /\ ui.screen = "tabs"
    /\ ui.home.active # Nothing
    /\ navigate_to_session(db, ui.home.active[1], "continue")
    /\ UNCHANGED <<now, ids, last>>
    /\ ViewFrame

\* on_pause_resume
PauseResume ==
    /\ view.open
    /\ ui.session # Nothing
    /\ IF is_paused(state)
       THEN LET r == resume(state, now) IN
            /\ state' = r.state
            /\ db' = on_timer_state_change(db, r.notes)
            /\ ref' = resume(ref, now).state
            \* _start_timer_updates: schedules only if timer_handle is None
            /\ view' = [view EXCEPT !.pending = IF view.timer_handle THEN @ ELSE TRUE,
                                    !.timer_handle = TRUE,
                                    !.event = "resume"]
       ELSE LET r == pause(state, now) IN
            /\ state' = r.state
            /\ db' = on_timer_state_change(db, r.notes)
            /\ ref' = pause(ref, now).state
            /\ view' = [view EXCEPT !.event = "pause"]
    /\ UNCHANGED <<now, ui, ids, last>>
    /\ ViewFrame

\* _timer_tick, run by the event loop when the call_later delay is over
TimerTick ==
    /\ view.open
    /\ view.pending
    /\ IF is_running(state)
       THEN view' = [view EXCEPT !.label = elapsed_seconds(state, now),
                                 !.pending = TRUE, !.timer_handle = TRUE,
                                 !.event = "tick"]
       ELSE view' = [view EXCEPT !.pending = FALSE, !.event = "idle"]
    /\ UNCHANGED <<now, state, db, ref, ui, ids, last>>
    /\ ViewFrame

\* on_back: navigate_home shows the home tab with the content it has; the
\* view and its timer are gone; a _timer_tick still scheduled for the old
\* view only touches the old view
LeaveView ==
    /\ view.open
    /\ ui.session # Nothing
    /\ view' = [NoView EXCEPT !.event = "leave"]
    /\ state' = initial
    /\ ui' = Screen("tabs", ui.home)
    /\ UNCHANGED <<now, db, ref, ids, last>>
    /\ ViewFrame

\* _end_workout
EndWorkout ==
    /\ view.open
    /\ ui.session # Nothing
    /\ LET r  == stop(state, now)
           d1 == on_timer_state_change(db, r.notes)
           d2 == commit(d1, end_session(d1.conn, view.session_id, r.ret, now))
           d3 == commit(d2, set_active_session_id(d2.conn, Nothing))
           d4 == commit(d3, set_timer_state(d3.conn, Nothing))
       IN
        /\ state' = r.state
        /\ db' = d4
        /\ view' = [NoView EXCEPT !.event = "end"]
        /\ last' = [op |-> "end_session", arg |-> Some(<<view.session_id, r.ret>>),
                    ret |-> Nothing]
    /\ ref' = initial
    /\ ui' = Screen("tabs", ui.home)
    /\ UNCHANGED <<now, ids>>
    /\ ViewFrame

\* the process is killed inside _end_workout and started again. The
\* statements of _end_workout are transactions of their own; point says how
\* many of them were committed:
\*   1  timer.stop(), whose notification has written the Stopped snapshot
\*   2  and session_repo.end_session
\*   3  and set_active_session_id(None); set_timer_state(None) is missing
\* last holds the session, the seconds stop() returned and the point.
KillPoints == {1, 2, 3}

EndWorkoutKilled ==
    /\ view.open
    /\ ui.session # Nothing
    /\ \E point \in KillPoints :
        LET r  == stop(state, now)
            d1 == on_timer_state_change(db, r.notes)
            d2 == commit(d1, end_session(d1.conn, view.session_id, r.ret, now))
            d3 == commit(d2, set_active_session_id(d2.conn, Nothing))
            d  == IF point = 1 THEN d1 ELSE IF point = 2 THEN d2 ELSE d3
        IN
        /\ db' = [disk |-> d.disk, conn |-> d.disk]
        /\ last' = [op |-> "end_workout_killed",
                    arg |-> Some(<<view.session_id, r.ret, point>>), ret |-> Nothing]
        /\ ref' = IF point = 1 THEN ref ELSE initial
        /\ \E home \in create_home_tab(d.disk) : ui' = Screen("tabs", home)
    /\ state' = initial
    /\ view' = [NoView EXCEPT !.event = "restart"]
    /\ UNCHANGED <<now, ids>>
    /\ ViewFrame

\* home: on_discard of the active session card; refresh_home builds the
\* home tab anew
DiscardWorkout ==
    /\ ui.screen = "tabs"
    /\ ui.home.active # Nothing
    /\ LET d1 == commit(db, session_delete(db.conn, ui.home.active[1]))
           d2 == commit(d1, set_active_session_id(d1.conn, Nothing))
           d3 == commit(d2, set_timer_state(d2.conn, Nothing))
       IN  /\ db' = d3
           /\ \E home \in create_home_tab(d3.conn) : ui' = Screen("tabs", home)
    /\ view' = [NoView EXCEPT !.event = "discard"]
    /\ last' = [op |-> "session_delete", arg |-> ui.home.active, ret |-> Nothing]
    /\ ref' = initial
    /\ UNCHANGED <<now, state, ids>>
    /\ ViewFrame

\* the process is killed and started again: what the connection had not
\* committed is gone, Database.initialize() finds the store migrated, every
\* view is gone and the home tab is built from the store
Restart ==
    /\ db' = [disk |-> db.disk, conn |-> db.disk]
    /\ view' = [NoView EXCEPT !.event = "restart"]
    /\ state' = initial
    /\ \E home \in create_home_tab(db.disk) : ui' = Screen("tabs", home)
    /\ UNCHANGED <<now, ref, ids, last>>
    /\ ViewFrame

\* the wall clock moves on
Tock ==
    /\ now < MaxClock
    /\ now' = now + 1
    /\ UNCHANGED <<state, db, view, ref, ui, ids, last>>
    /\ ViewFrame

\* ------------------------------------------ templates tab, TemplateEditView
\* what the user types: names of new templates and exercises, and the
\* content of the name field of the edit view ("" is an emptied field)
TemplateNames == {"Full Body"}
ExerciseNames == {"Squats"}
NameInputs    == {"", "Renamed"}

\* navigate_to_template_edit: TemplateEditView.__init__ (refresh_template)
\* and create_view (the name field holds the template's name)
navigate_to_template_edit(d, template_id) ==
    \E template \in template_get_by_id(d.conn, template_id) :
        ui' = [Screen("template_edit", ui.home)
                  EXCEPT !.template = template,
                         !.name_input = IF template = Nothing THEN "" ELSE template[1].name]

\* _save_template: the name field, if not blank, becomes the name; then
\* TemplateRepository.save in its transaction
save_template(d, template, name_input) ==
    LET named == IF name_input # "" THEN [template EXCEPT !.name = name_input] ELSE template
        fault == IF template_save_raises(d.conn, named) THEN "Exception" ELSE "none"
    IN  [template |-> named,
         db |-> transaction(d, template_save(d.conn, named), fault),
         raised |-> fault # "none"]

InTemplateEdit == ui.screen = "template_edit" /\ ui.template # Nothing

\* templates tab: "+ New Template", a name is entered
AddTemplate ==
    /\ ui.screen = "tabs"
    /\ ids.templates < MaxTemplates
    /\ ids.ops < MaxOps
    /\ \E name \in TemplateNames :
        LET template == WorkoutTemplate_create(1..ids.templates, name, now)
            d1 == commit(db, template_save(db.conn, template))
        IN  /\ db' = d1
            /\ navigate_to_template_edit(d1, template.id)
            /\ last' = [op |-> "template_save", arg |-> Some(template), ret |-> Nothing]
    /\ ids' = [ids EXCEPT !.templates = @ + 1, !.ops = @ + 1]
    /\ UNCHANGED <<now, state, view, ref>>
    /\ ViewFrame

\* templates tab: a template card is pressed
OpenTemplate ==
    /\ ui.screen = "tabs"
    /\ \E row \in db.conn.workout_templates : navigate_to_template_edit(db, row.id)
    /\ UNCHANGED <<now, state, db, view, ref, ids, last>>
    /\ ViewFrame

\* the user edits the name field (an edit, counted in ids.ops)
TypeName ==
    /\ InTemplateEdit
    /\ ids.ops < MaxOps
    /\ \E name \in NameInputs :
        /\ name # ui.name_input
        /\ ui' = [ui EXCEPT !.name_input = name]
    /\ ids' = [ids EXCEPT !.ops = @ + 1]
    /\ UNCHANGED <<now, state, db, view, ref, last>>
    /\ ViewFrame

\* on_save
SaveTemplate ==
    /\ InTemplateEdit
    /\ LET r == save_template(db, ui.template[1], ui.name_input) IN
        /\ db' = r.db
        /\ ui' = [ui EXCEPT !.template = Some(r.template)]
        /\ last' = [op |-> "template_save", arg |-> Some(r.template), ret |-> Nothing]
    /\ UNCHANGED <<now, state, view, ref, ids>>
    /\ ViewFrame

\* on_back: _save_template, then navigate_to_templates
BackFromTemplate ==
    /\ InTemplateEdit
    /\ LET r == save_template(db, ui.template[1], ui.name_input) IN
        /\ db' = r.db
        /\ last' = [op |-> "template_save", arg |-> Some(r.template), ret |-> Nothing]
    /\ ui' = Screen("tabs", ui.home)
    /\ UNCHANGED <<now, state, view, ref, ids>>
    /\ ViewFrame

\* _add_exercise: a name is entered in the dialog; the exercise goes to the
\* end of the list, the template is saved and the view is built again
AddTemplateExercise ==
    /\ InTemplateEdit
    /\ ids.ops < MaxOps
    /\ \E name \in ExerciseNames :
        LET template == ui.template[1]
            order_index == Len(template.exercises)
            exercise == TemplateExercise_create(1..ids.template_exercises, template.id,
                                                name, order_index, TRUE)
            r == save_template(db, [template EXCEPT !.exercises = Append(@, exercise)],
                               ui.name_input)
        IN  /\ db' = r.db
            /\ navigate_to_template_edit(r.db, template.id)
            /\ last' = [op |-> "template_save", arg |-> Some(r.template), ret |-> Nothing]
    /\ ids' = [ids EXCEPT !.template_exercises = @ + 1, !.ops = @ + 1]
    /\ UNCHANGED <<now, state, view, ref>>
    /\ ViewFrame

\* on_toggle_weight of an exercise item
ToggleWeight ==
    /\ InTemplateEdit
    /\ ids.ops < MaxOps
    /\ \E i \in 1..Len(ui.template[1].exercises) :
        LET template == ui.template[1]
            r == save_template(db, [template EXCEPT !.exercises[i].uses_weight = ~@],
                               ui.name_input)
        IN  /\ db' = r.db
            /\ navigate_to_template_edit(r.db, template.id)
            /\ last' = [op |-> "template_save", arg |-> Some(r.template), ret |-> Nothing]
    /\ ids' = [ids EXCEPT !.ops = @ + 1]
    /\ UNCHANGED <<now, state, view, ref>>
    /\ ViewFrame

\* the remaining exercises keep their indices
reindexed_not(exercises) == exercises

\* for i, ex in enumerate(exercises): ex.order_index = i
reindexed(exercises) ==
    [i \in 1..Len(exercises) |-> [exercises[i] EXCEPT !.order_index = i - 1]]

\* on_delete of an exercise item
DeleteTemplateExercise ==
    /\ InTemplateEdit
    /\ ids.ops < MaxOps
    /\ \E i \in 1..Len(ui.template[1].exercises) :
        LET template == ui.template[1]
            exercise == template.exercises[i]
            keeps(ex) == ex.id # exercise.id
            remaining == reindexed(SelectSeq(template.exercises, keeps))
            r == save_template(db, [template EXCEPT !.exercises = remaining], ui.name_input)
        IN  /\ db' = r.db
            /\ navigate_to_template_edit(r.db, template.id)
            /\ last' = [op |-> "template_save", arg |-> Some(r.template), ret |-> Nothing]
    /\ ids' = [ids EXCEPT !.ops = @ + 1]
    /\ UNCHANGED <<now, state, view, ref>>
    /\ ViewFrame

\* on_duplicate: TemplateRepository.duplicate of the view's template under
\* the name "<name> (Copy)", then the edit view of the copy
DuplicateTemplate ==
    /\ InTemplateEdit
    /\ ids.templates < MaxTemplates
    /\ ids.ops < MaxOps
    /\ \E original \in template_get_by_id(db.conn, ui.template[1].id) :
        LET new_name == ui.template[1].name \o " (Copy)"
            arg == Some(<<ui.template[1].id, new_name>>)
        IN
        IF original = Nothing
        THEN /\ last' = [op |-> "duplicate", arg |-> arg, ret |-> Nothing]
             /\ UNCHANGED <<db, ui, ids>>
        ELSE LET new_template == duplicate(original[1], new_name, now, 1..ids.templates,
                                           1..ids.template_exercises)
                 d1 == commit(db, template_save(db.conn, new_template))
             IN  /\ db' = d1
                 /\ navigate_to_template_edit(d1, new_template.id)
                 /\ last' = [op |-> "duplicate", arg |-> arg, ret |-> Some(new_template)]
                 /\ ids' = [ids EXCEPT !.templates = @ + 1,
                                       !.template_exercises = @ + Len(new_template.exercises),
                                       !.ops = @ + 1]
    /\ UNCHANGED <<now, state, view, ref>>
    /\ ViewFrame

\* on_delete of the edit view, confirmed: TemplateRepository.delete, then
\* navigate_to_templates
DeleteTemplate ==
    /\ InTemplateEdit
    /\ db' = commit(db, template_delete(db.conn, ui.template[1].id))
    /\ ui' = Screen("tabs", ui.home)
    /\ last' = [op |-> "template_delete", arg |-> Some(ui.template[1].id), ret |-> Nothing]
    /\ UNCHANGED <<now, state, view, ref, ids>>
    /\ ViewFrame

\* ------------------------------------------- starting a workout from a template
SessionExercise_from_template_exercise(used, session_id, template_exercise) ==
    [id |-> uuid4(used), session_id |-> session_id, name |-> template_exercise.name,
     order_index |-> template_exercise.order_index,
     uses_weight |-> template_exercise.uses_weight, sets |-> <<>>]

set_last_template_id(st, opt) ==
    IF opt = Nothing THEN app_delete(st, "last_template_id")
    ELSE app_upsert(st, "last_template_id", opt[1])

\* the loop "for tex in template.exercises" from exercises[i] on: the new
\* exercise is appended to session.exercises and written by save_exercise in
\* a transaction of its own; an IntegrityError ends the loop and the handler
RECURSIVE add_exercises_from_template(_, _, _, _, _)
add_exercises_from_template(d, session, exercises, i, used) ==
    IF i > Len(exercises) THEN [db |-> d, session |-> session, raised |-> FALSE]
    ELSE LET ex == SessionExercise_from_template_exercise(used, session.id, exercises[i])
             fault == IF save_exercise_raises(d.conn, ex) THEN "Exception" ELSE "none"
             d1 == transaction(d, save_exercise(d.conn, ex), fault)
             session1 == [session EXCEPT !.exercises = Append(@, ex)]
         IN  IF fault # "none"
             THEN [db |-> d1, session |-> session1, raised |-> TRUE]
             ELSE add_exercises_from_template(d1, session1, exercises, i + 1,
                                              used \cup {ex.id})

\* start_with_template (home) and _start_workout_from_template (edit view),
\* up to the navigation: the session is created, its exercises are saved,
\* then the session itself, then the two app_state keys
start_with_template(d, template, t, used_sessions, used_exercises) ==
    LET session == WorkoutSession_create(used_sessions, t, template.id, Some(template.name))
        r == add_exercises_from_template(d, session, template.exercises, 1, used_exercises)
        fault == IF session_save_raises(r.db.conn, r.session) THEN "Exception" ELSE "none"
        d1 == transaction(r.db, session_save(r.db.conn, r.session), fault)
        d2 == commit(d1, set_active_session_id(d1.conn, Some(session.id)))
        d3 == commit(d2, set_last_template_id(d2.conn, Some(template.id)))
    IN  IF r.raised THEN r
        ELSE IF fault # "none" THEN [db |-> d1, session |-> r.session, raised |-> TRUE]
        ELSE [db |-> d3, session |-> r.session, raised |-> FALSE]

\* the rest of both handlers: navigate_to_session if nothing was raised; an
\* exception leaves the handler, and the screen stays as it is
started_with_template(r) ==
    /\ last' = [op |-> "start_with_template", arg |-> Some(r.session),
                ret |-> IF r.raised THEN Some("IntegrityError") ELSE Nothing]
    /\ IF r.raised
       THEN /\ db' = r.db
            /\ ids' = [ids EXCEPT !.ops = @ + 1]
            /\ UNCHANGED <<state, view, ref>>
       ELSE /\ navigate_to_session(r.db, r.session.id, "start")
            /\ ids' = [ids EXCEPT !.sessions = @ + 1,
                                  !.session_exercises = @ + Len(r.session.exercises),
                                  !.ops = @ + 1]

\* home: a template button of the quick start section
StartWithTemplate ==
    /\ ui.screen = "tabs"
    /\ ui.home.active = Nothing
    /\ ids.sessions < MaxSessions
    /\ ids.ops < MaxOps
    /\ \E template \in ui.home.templates :
        LET r == start_with_template(db, template, now, 1..ids.sessions,
                                     1..ids.session_exercises)
        IN  /\ started_with_template(r)
            /\ r.raised => UNCHANGED ui
    /\ UNCHANGED now
    /\ ViewFrame

\* edit view: on_start_workout = _save_template, _start_workout_from_template
StartFromTemplate ==
    /\ InTemplateEdit
    /\ ids.sessions < MaxSessions
    /\ ids.ops < MaxOps
    /\ LET saved == save_template(db, ui.template[1], ui.name_input)
           r == start_with_template(saved.db, saved.template, now, 1..ids.sessions,
                                    1..ids.session_exercises)
       IN  /\ started_with_template(r)
           /\ r.raised => ui' = [ui EXCEPT !.template = Some(saved.template)]
    /\ UNCHANGED now
    /\ ViewFrame

\* ------------------------------------- SessionView and ExerciseDetailView
Reps    == {10}
Weights == {None, 135}
\* the reps field as int() reads it: None is a text int() rejects
RepsInputs == Reps \cup {0, None}

SessionExercise_create(used, session_id, name, order_index, uses_weight) ==
    [id |-> uuid4(used), session_id |-> session_id, name |-> name,
     order_index |-> order_index, uses_weight |-> uses_weight, sets |-> <<>>]

Set_create(used, session_exercise_id, reps, weight, t) ==
    [id |-> uuid4(used), session_exercise_id |-> session_exercise_id, reps |-> reps,
     weight |-> weight, created_at |-> t]

\* navigate_to_exercise: ExerciseDetailView.__init__ (refresh_exercise
\* looks the exercise up in the reloaded session); the view that was on
\* screen is gone, and with a SessionView its timer
navigate_to_exercise(d, session_id, exercise_id) ==
    /\ \E session \in session_get_by_id(d.conn, session_id) :
        LET found == IF session = Nothing THEN {}
                     ELSE {i \in 1..Len(session[1].exercises) :
                              session[1].exercises[i].id = exercise_id}
        IN  ui' = [Screen("exercise", ui.home) EXCEPT
                      !.exercise = IF found = {} THEN Nothing
                                   ELSE Some(session[1].exercises[CHOOSE i \in found : TRUE])]
    /\ view' = [NoView EXCEPT !.event = "exercise"]
    /\ state' = initial

InExercise == ui.screen = "exercise" /\ ui.exercise # Nothing

\* _add_exercise of the session view: a name is entered in the dialog
AddSessionExercise ==
    /\ view.open
    /\ ui.session # Nothing
    /\ ids.session_exercises < MaxSessionExercises
    /\ ids.ops < MaxOps
    /\ \E name \in ExerciseNames :
        LET order_index == Len(ui.session[1].exercises)
            exercise == SessionExercise_create(1..ids.session_exercises, view.session_id,
                                               name, order_index, TRUE)
            fault == IF save_exercise_raises(db.conn, exercise) THEN "Exception" ELSE "none"
            d1 == transaction(db, save_exercise(db.conn, exercise), fault)
        IN  /\ db' = d1
            /\ last' = [op |-> "save_exercise", arg |-> Some(exercise),
                        ret |-> IF fault = "none" THEN Nothing ELSE Some("IntegrityError")]
            /\ IF fault = "none"
               THEN /\ navigate_to_exercise(d1, view.session_id, exercise.id)
                    /\ ids' = [ids EXCEPT !.session_exercises = @ + 1, !.ops = @ + 1]
               ELSE UNCHANGED <<state, view, ui, ids>>
    /\ UNCHANGED <<now, ref>>
    /\ ViewFrame

\* an exercise item of the session view is pressed
OpenExercise ==
    /\ view.open
    /\ ui.session # Nothing
    /\ \E i \in 1..Len(ui.session[1].exercises) :
        navigate_to_exercise(db, view.session_id, ui.session[1].exercises[i].id)
    /\ UNCHANGED <<now, db, ref, ids, last>>
    /\ ViewFrame

\* _add_set: reps is a positive number; the weight field is read only if
\* the exercise uses weight, and a field that is no number gives no weight
AddSet ==
    /\ InExercise
    /\ ids.sets < MaxSets
    /\ ids.ops < MaxOps
    /\ \E reps \in RepsInputs, input \in Weights :
        LET exercise == ui.exercise[1]
            weight == IF exercise.uses_weight THEN input ELSE None
            new_set == Set_create(1..ids.sets, exercise.id, reps, weight, now)
            fault == IF save_set_raises(db.conn, new_set) THEN "Exception" ELSE "none"
            d1 == transaction(db, save_set(db.conn, new_set), fault)
        IN  IF reps = None \/ reps <= 0
            THEN UNCHANGED <<db, last, state, view, ui, ids>>
            ELSE /\ db' = d1
                 /\ last' = [op |-> "save_set", arg |-> Some(new_set),
                             ret |-> IF fault = "none" THEN Nothing
                                     ELSE Some("IntegrityError")]
                 /\ IF fault = "none"
                    THEN /\ navigate_to_exercise(d1, exercise.session_id, exercise.id)
                         /\ ids' = [ids EXCEPT !.sets = @ + 1, !.ops = @ + 1]
                    ELSE UNCHANGED <<state, view, ui, ids>>
    /\ UNCHANGED <<now, ref>>
    /\ ViewFrame

\* on_delete of a set row, confirmed
DeleteSet ==
    /\ InExercise
    /\ \E i \in 1..Len(ui.exercise[1].sets) :
        LET workout_set == ui.exercise[1].sets[i]
            d1 == commit(db, delete_set(db.conn, workout_set.id))
        IN  /\ db' = d1
            /\ last' = [op |-> "delete_set", arg |-> Some(workout_set.id), ret |-> Nothing]
            /\ navigate_to_exercise(d1, ui.exercise[1].session_id, ui.exercise[1].id)
    /\ UNCHANGED <<now, ref, ids>>
    /\ ViewFrame

\* on_delete of the exercise, confirmed: delete_exercise, then the session view
DeleteSessionExercise ==
    /\ InExercise
    /\ LET d1 == commit(db, delete_exercise(db.conn, ui.exercise[1].id)) IN
        /\ navigate_to_session(d1, ui.exercise[1].session_id, "return")
        /\ last' = [op |-> "delete_exercise", arg |-> Some(ui.exercise[1].id), ret |-> Nothing]
    /\ UNCHANGED <<now, ids>>
    /\ ViewFrame

\* on_back of the exercise view: the session view
BackToSession ==
    /\ InExercise
    /\ navigate_to_session(db, ui.exercise[1].session_id, "return")
    /\ UNCHANGED <<now, ids, last>>
    /\ ViewFrame

\* the wall clock moves on while a workout is on screen
AppTock ==
    /\ ui.screen \in {"session", "exercise"}
    /\ now < MaxAppClock
    /\ now' = now + 1
    /\ UNCHANGED <<state, db, view, ref, ui, ids, last>>
    /\ ViewFrame

ViewNext ==
    \/ StartWorkout \/ ContinueWorkout \/ PauseResume \/ TimerTick
    \/ LeaveView \/ EndWorkout \/ DiscardWorkout \/ Restart \/ Tock

\* the views of a workout that is under way
SessionNext ==
    \/ ContinueWorkout \/ LeaveView \/ AddSessionExercise \/ OpenExercise
    \/ AddSet \/ DeleteSet \/ DeleteSessionExercise \/ BackToSession
    \/ Restart \/ AppTock

\* the session view with kills inside _end_workout
KillNext == ViewNext \/ EndWorkoutKilled

\* the whole app but for the pause button and the display refresh
AppNext ==
    \/ StartWorkout \/ StartWithTemplate \/ ContinueWorkout \/ DiscardWorkout
    \/ LeaveView \/ EndWorkout
    \/ AddSessionExercise \/ OpenExercise \/ AddSet \/ DeleteSet
    \/ DeleteSessionExercise \/ BackToSession
    \/ AddTemplate \/ OpenTemplate \/ TypeName \/ SaveTemplate \/ BackFromTemplate
    \/ AddTemplateExercise \/ ToggleWeight \/ DeleteTemplateExercise
    \/ DuplicateTemplate \/ DeleteTemplate \/ StartFromTemplate
    \/ Restart \/ AppTock

\* ------------------------------- the repositories driven through their API
\* The repositories called directly (test_repositories.py), with aggregates
\* built by the constructors of models.py: a template has its exercises at
\* order_index 0, 1, ...; a session object can hold exercises that no
\* save_exercise has written (start_with_template builds it so).
CopyNames  == {"Copy"}
\* the exercises and weights that are logged: a second name and a second weight
LoggedNames   == ExerciseNames \cup {"Curls"}
LoggedWeights == Weights \cup {155}
Durations  == {0, 60}

RepoFrame == UNCHANGED <<state, call, observed, ghost, view, ref, app, expected, mig, ui>>

\* an id that no row has: one uuid4() has not handed out yet
missing(issued) == uuid4(1..issued)

\* the templates a caller can hold: a new one, without or with an exercise,
\* or a loaded one, as it is or after one change of the loaded object
templates_held(st, t) ==
    LET new == {WorkoutTemplate_create(1..ids.templates, name, t) : name \in TemplateNames}
        one(template) ==
            TemplateExercise_create(1..ids.template_exercises, template.id,
                                    CHOOSE name \in ExerciseNames : TRUE,
                                    Len(template.exercises), TRUE)
        loaded == {opt[1] : opt \in UNION {template_get_by_id(st, row.id) :
                                               row \in st.workout_templates}}
        keeps(template, i) == [j \in 1..(Len(template.exercises) - 1) |->
                                  template.exercises[IF j < i THEN j ELSE j + 1]]
    IN  new
        \cup {[template EXCEPT !.exercises = Append(@, one(template))] :
                 template \in new \cup loaded}
        \cup loaded
        \cup {[template EXCEPT !.name = name] : template \in loaded, name \in NameInputs \ {""}}
        \cup UNION {{[template EXCEPT !.exercises = reindexed(keeps(template, i))] :
                        i \in 1..Len(template.exercises)} : template \in loaded}
        \cup UNION {{[template EXCEPT !.exercises[i].uses_weight = ~@] :
                        i \in 1..Len(template.exercises)} : template \in loaded}

\* TemplateRepository.save(template)
RepoTemplateSave ==
    /\ ids.ops < MaxRepoCalls
    /\ \E template \in templates_held(db.conn, now) :
        LET is_new == \A row \in db.conn.workout_templates : row.id # template.id
            added == \E i \in 1..Len(template.exercises) :
                        \A row \in db.conn.template_exercises :
                            row.id # template.exercises[i].id
        IN  /\ is_new => ids.templates < MaxTemplates
            /\ db' = commit(db, template_save(db.conn, template))
            /\ ids' = [ids EXCEPT !.templates = IF is_new THEN @ + 1 ELSE @,
                                  !.template_exercises = IF added THEN @ + 1 ELSE @,
                                  !.ops = @ + 1]
            /\ last' = [op |-> "template_save", arg |-> Some(template), ret |-> Nothing]
    /\ UNCHANGED now
    /\ RepoFrame

\* TemplateRepository.delete(template_id)
RepoTemplateDelete ==
    /\ \E template_id \in {row.id : row \in db.conn.workout_templates}
                          \cup {missing(ids.templates)} :
        /\ db' = commit(db, template_delete(db.conn, template_id))
        /\ last' = [op |-> "template_delete", arg |-> Some(template_id), ret |-> Nothing]
    /\ UNCHANGED <<now, ids>>
    /\ RepoFrame

\* TemplateRepository.duplicate(template_id, new_name)
RepoDuplicate ==
    /\ ids.ops < MaxRepoCalls
    /\ ids.templates < MaxTemplates
    /\ \E template_id \in {row.id : row \in db.conn.workout_templates}
                          \cup {missing(ids.templates)},
          new_name \in CopyNames :
        \E original \in template_get_by_id(db.conn, template_id) :
            IF original = Nothing
            THEN /\ last' = [op |-> "duplicate", arg |-> Some(<<template_id, new_name>>),
                             ret |-> Nothing]
                 /\ ids' = [ids EXCEPT !.ops = @ + 1]
                 /\ UNCHANGED db
            ELSE LET new_template == duplicate(original[1], new_name, now, 1..ids.templates,
                                               1..ids.template_exercises)
                 IN  /\ db' = commit(db, template_save(db.conn, new_template))
                     /\ last' = [op |-> "duplicate", arg |-> Some(<<template_id, new_name>>),
                                 ret |-> Some(new_template)]
                     /\ ids' = [ids EXCEPT !.templates = @ + 1,
                                           !.template_exercises =
                                               @ + Len(new_template.exercises),
                                           !.ops = @ + 1]
    /\ UNCHANGED now
    /\ RepoFrame

\* the sessions a caller can hold: a new one, without a template or with the
\* id and name of one, without or with an exercise appended to the object,
\* or a loaded one, as it is or with notes
sessions_held(st, t) ==
    LET links == {<<None, Nothing>>}
                 \cup {<<row.id, Some(row.name)>> : row \in st.workout_templates}
        new == {WorkoutSession_create(1..ids.sessions, t, link[1], link[2]) : link \in links}
        one(session) ==
            SessionExercise_create(1..ids.session_exercises, session.id,
                                   CHOOSE name \in ExerciseNames : TRUE, 0, TRUE)
        loaded == {opt[1] : opt \in UNION {session_get_by_id(st, row.id) :
                                               row \in st.workout_sessions}}
    IN  new
        \cup {[session EXCEPT !.exercises = <<one(session)>>] : session \in new}
        \cup loaded
        \cup {[session EXCEPT !.notes = Some("notes")] : session \in loaded}

\* SessionRepository.save(session)
RepoSessionSave ==
    /\ ids.ops < MaxRepoCalls
    /\ \E session \in sessions_held(db.conn, now) :
        LET is_new == \A row \in db.conn.workout_sessions : row.id # session.id
            held == \E i \in 1..Len(session.exercises) :
                       \A row \in db.conn.session_exercises : row.id # session.exercises[i].id
            fault == IF session_save_raises(db.conn, session) THEN "Exception" ELSE "none"
        IN  /\ is_new => ids.sessions < MaxSessions
            /\ held => ids.session_exercises < MaxSessionExercises
            /\ db' = transaction(db, session_save(db.conn, session), fault)
            /\ ids' = [ids EXCEPT !.sessions = IF is_new THEN @ + 1 ELSE @,
                                  !.session_exercises = IF held THEN @ + 1 ELSE @,
                                  !.ops = @ + 1]
            /\ last' = [op |-> "session_save", arg |-> Some(session),
                        ret |-> IF fault = "none" THEN Nothing ELSE Some("IntegrityError")]
    /\ UNCHANGED now
    /\ RepoFrame

\* SessionRepository.save_exercise(exercise), the exercise new, at the end
\* of the exercises of a saved session
RepoSaveExercise ==
    /\ ids.ops < MaxRepoCalls
    /\ ids.session_exercises < MaxSessionExercises
    /\ \E row \in db.conn.workout_sessions, name \in LoggedNames :
        LET order_index == Cardinality({x \in db.conn.session_exercises :
                                           x.session_id = row.id})
            exercise == SessionExercise_create(1..ids.session_exercises, row.id, name,
                                               order_index, TRUE)
        IN  /\ db' = commit(db, save_exercise(db.conn, exercise))
            /\ last' = [op |-> "save_exercise", arg |-> Some(exercise), ret |-> Nothing]
    /\ ids' = [ids EXCEPT !.session_exercises = @ + 1, !.ops = @ + 1]
    /\ UNCHANGED now
    /\ RepoFrame

\* SessionRepository.save_set(workout_set), the set new
RepoSaveSet ==
    /\ ids.ops < MaxRepoCalls
    /\ ids.sets < MaxSets
    /\ \E row \in db.conn.session_exercises, reps \in Reps, weight \in LoggedWeights :
        LET workout_set == Set_create(1..ids.sets, row.id, reps, weight, now)
        IN  /\ db' = commit(db, save_set(db.conn, workout_set))
            /\ last' = [op |-> "save_set", arg |-> Some(workout_set), ret |-> Nothing]
    /\ ids' = [ids EXCEPT !.sets = @ + 1, !.ops = @ + 1]
    /\ UNCHANGED now
    /\ RepoFrame

\* SessionRepository.delete_exercise(exercise_id)
RepoDeleteExercise ==
    /\ \E row \in db.conn.session_exercises :
        /\ db' = commit(db, delete_exercise(db.conn, row.id))
        /\ last' = [op |-> "delete_exercise", arg |-> Some(row.id), ret |-> Nothing]
    /\ UNCHANGED <<now, ids>>
    /\ RepoFrame

\* SessionRepository.delete_set(set_id)
RepoDeleteSet ==
    /\ \E row \in db.conn.sets :
        /\ db' = commit(db, delete_set(db.conn, row.id))
        /\ last' = [op |-> "delete_set", arg |-> Some(row.id), ret |-> Nothing]
    /\ UNCHANGED <<now, ids>>
    /\ RepoFrame

\* SessionRepository.end_session(session_id, duration_seconds)
RepoEndSession ==
    /\ \E row \in db.conn.workout_sessions, duration_seconds \in Durations :
        /\ db' = commit(db, end_session(db.conn, row.id, duration_seconds, now))
        /\ last' = [op |-> "end_session", arg |-> Some(<<row.id, duration_seconds>>),
                    ret |-> Nothing]
    /\ UNCHANGED <<now, ids>>
    /\ RepoFrame

\* SessionRepository.delete(session_id)
RepoSessionDelete ==
    /\ \E row \in db.conn.workout_sessions :
        /\ db' = commit(db, session_delete(db.conn, row.id))
        /\ last' = [op |-> "session_delete", arg |-> Some(row.id), ret |-> Nothing]
    /\ UNCHANGED <<now, ids>>
    /\ RepoFrame

\* the wall clock moves on between two calls
RepoTock ==
    /\ now < MaxAppClock
    /\ now' = now + 1
    /\ UNCHANGED <<db, ids, last>>
    /\ RepoFrame

RepoNext ==
    \/ RepoTemplateSave \/ RepoTemplateDelete \/ RepoDuplicate
    \/ RepoSessionSave \/ RepoSaveExercise \/ RepoSaveSet
    \/ RepoDeleteExercise \/ RepoDeleteSet \/ RepoEndSession \/ RepoSessionDelete
    \/ RepoTock

\* -------------------------------------------------------------- migrations
SchemaTables ==
    {"workout_templates", "template_exercises", "workout_sessions",
     "session_exercises", "sets", "app_state"}

\* CREATE TABLE IF NOT EXISTS ... for every table, in one transaction
migration_001_initial_schema(d, fault) ==
    transaction(d, [d.conn EXCEPT !.tables = @ \cup SchemaTables], fault)

SeedTemplates ==
    << [name |-> "Push Day",
        exercises |-> << <<"Bench Press", TRUE>>, <<"Overhead Press", TRUE>>,
                         <<"Incline Dumbbell Press", TRUE>>, <<"Tricep Pushdowns", TRUE>>,
                         <<"Lateral Raises", TRUE>> >>],
       [name |-> "Pull Day",
        exercises |-> << <<"Deadlift", TRUE>>, <<"Barbell Rows", TRUE>>,
                         <<"Pull-ups", FALSE>>, <<"Face Pulls", TRUE>>,
                         <<"Bicep Curls", TRUE>> >>],
       [name |-> "Leg Day",
        exercises |-> << <<"Squats", TRUE>>, <<"Romanian Deadlifts", TRUE>>,
                         <<"Leg Press", TRUE>>, <<"Leg Curls", TRUE>>,
                         <<"Calf Raises", TRUE>> >>] >>

\* the inner loop: INSERT INTO template_exercises for enumerate(exercises) from index i on
RECURSIVE seed_exercises(_, _, _, _)
seed_exercises(st, template_id, exercises, i) ==
    IF i > Len(exercises) THEN st
    ELSE LET exercise_id == uuid4({row.id : row \in st.template_exercises})
             row == [id |-> exercise_id, template_id |-> template_id,
                     name |-> exercises[i][1], order_index |-> i - 1,
                     uses_weight |-> IF exercises[i][2] THEN 1 ELSE 0]
         IN  seed_exercises([st EXCEPT !.template_exercises = @ \cup {row}],
                            template_id, exercises, i + 1)

\* the outer loop: INSERT INTO workout_templates, then the exercises
RECURSIVE seed_templates(_, _, _)
seed_templates(st, t, i) ==
    IF i > Len(SeedTemplates) THEN st
    ELSE LET template_id == uuid4({row.id : row \in st.workout_templates})
             row == [id |-> template_id, name |-> SeedTemplates[i].name, created_at |-> t]
             st1 == [st EXCEPT !.workout_templates = @ \cup {row}]
         IN  seed_templates(seed_exercises(st1, template_id, SeedTemplates[i].exercises, 1),
                            t, i + 1)

migration_002_seed_templates(d, t, fault) ==
    transaction(d, seed_templates(d.conn, t, 1), fault)

MIGRATIONS ==
    << [version |-> 1, name |-> "initial_schema"],
       [version |-> 2, name |-> "seed_templates"] >>

migration_fn(version, d, t, fault) ==
    IF version = 1 THEN migration_001_initial_schema(d, fault)
    ELSE migration_002_seed_templates(d, t, fault)

Max(S) == CHOOSE x \in S : \A y \in S : y <= x

Min(S) == CHOOSE x \in S : \A y \in S : x <= y

\* ORDER BY version ASC: the lowest recorded version is taken
get_current_version_lowest(st) ==
    IF "schema_version" \notin st.tables THEN 0
    ELSE IF st.schema_version = {} THEN 0
    ELSE Min({row.version : row \in st.schema_version})

get_current_version(st) ==
    IF "schema_version" \notin st.tables THEN 0
    ELSE IF st.schema_version = {} THEN 0
    ELSE Max({row.version : row \in st.schema_version})

\* A fault names the transaction of apply_migrations that is left by an
\* exception: <<version, "body">> or <<version, "ledger">>; <<>> is no fault.
NoFault == <<>>
MigrationFaults ==
    {NoFault} \cup {<<m, step>> : m \in 1..Len(MIGRATIONS), step \in {"body", "ledger"}}

FaultOf(fault, version, step) ==
    IF fault = <<version, step>> THEN "Exception" ELSE "none"

\* a failure is noted and the loop goes on to the next migration
RECURSIVE run_migrations_continues(_, _, _, _, _, _)
run_migrations_continues(i, current_version, d, t, fault, ran) ==
    IF i > Len(MIGRATIONS) THEN [db |-> d, raised |-> FALSE, ran |-> ran, failed |-> 0]
    ELSE LET version == MIGRATIONS[i].version IN
         IF version > current_version
         THEN LET f1 == FaultOf(fault, version, "body")
                  d1 == migration_fn(version, d, t, f1)
                  f2 == IF \E row \in d1.conn.schema_version : row.version = version
                        THEN "Exception"
                        ELSE FaultOf(fault, version, "ledger")
                  d2 == transaction(d1,
                            [d1.conn EXCEPT !.schema_version =
                                @ \cup {[version |-> version, applied_at |-> t]}],
                            f2)
                  rest == run_migrations_continues(i + 1, current_version,
                              IF f1 # "none" THEN d1 ELSE d2, t, fault, ran \cup {version})
              IN  IF f1 # "none" \/ f2 # "none"
                  THEN [rest EXCEPT !.raised = TRUE, !.failed = version]
                  ELSE rest
         ELSE run_migrations_continues(i + 1, current_version, d, t, fault, ran)

\* the loop of apply_migrations from MIGRATIONS[i] on; ran collects the
\* versions whose migration function has been called, failed is the version
\* whose try block was left by the exception (0: none)
RECURSIVE run_migrations(_, _, _, _, _, _)
run_migrations(i, current_version, d, t, fault, ran) ==
    IF i > Len(MIGRATIONS) THEN [db |-> d, raised |-> FALSE, ran |-> ran, failed |-> 0]
    ELSE LET version == MIGRATIONS[i].version IN
         IF version > current_version
         THEN LET f1 == FaultOf(fault, version, "body")
                  d1 == migration_fn(version, d, t, f1)
                  \* INSERT INTO schema_version: version is the primary key
                  f2 == IF \E row \in d1.conn.schema_version : row.version = version
                        THEN "Exception"
                        ELSE FaultOf(fault, version, "ledger")
                  d2 == transaction(d1,
                            [d1.conn EXCEPT !.schema_version =
                                @ \cup {[version |-> version, applied_at |-> t]}],
                            f2)
              IN  IF f1 # "none"
                  THEN [db |-> d1, raised |-> TRUE, ran |-> ran \cup {version},
                        failed |-> version]
                  ELSE IF f2 # "none"
                  THEN [db |-> d2, raised |-> TRUE, ran |-> ran \cup {version},
                        failed |-> version]
                  ELSE run_migrations(i + 1, current_version, d2, t, fault, ran \cup {version})
         ELSE run_migrations(i + 1, current_version, d, t, fault, ran)

\* the loop does not end at a failed migration
apply_migrations_keeps_going(d, t, fault) ==
    LET d0 == transaction(d, [d.conn EXCEPT !.tables = @ \cup {"schema_version"}], "none")
    IN  run_migrations_continues(1, get_current_version(d0.conn), d0, t, fault, {})

apply_migrations(d, t, fault) ==
    LET d0 == transaction(d, [d.conn EXCEPT !.tables = @ \cup {"schema_version"}], "none")
    IN  run_migrations(1, get_current_version(d0.conn), d0, t, fault, {})

\* ------------------------------------------- SpecDb: the database in use
Keys   == {"active_session_id", "last_template_id"}
Values == {"u1"}

\* texts written under the key timer_state: a snapshot as set_timer_state
\* writes it, text that is not JSON, JSON that is not an object, an object
\* without accumulated_seconds, and an object whose start_time is no ISO
\* timestamp
not_iso == <<0, 0>>
saved_snapshot == timer_state_json(TimerState(TRUE, FALSE, 0, None, 0))
TimerTexts ==
    {saved_snapshot,
     [text |-> "{"],
     [text |-> "[]"],
     [is_running |-> TRUE, is_paused |-> FALSE, start_time |-> isoformat(0),
      pause_time |-> null],
     [saved_snapshot EXCEPT !.start_time = not_iso]}
ScopeFaults == {"none", "Exception", "BaseException"}

FreshDb == [disk |-> EmptyStore, conn |-> EmptyStore]

\* pre, post   the durable store before and after the last apply_migrations
\* ran         the versions whose migration function that run has called
\* raised      whether that run ended by an exception
\* failed      the version at which that run ended by an exception (0: none)
\* bodyRuns    how often each migration function was called on this database file
\* faulted     whether a run on this database file ended by an exception
\* faults      all runs that ended by an exception
MigInit ==
    [pre |-> EmptyStore, post |-> EmptyStore, ran |-> {}, raised |-> FALSE,
     failed |-> 0,
     bodyRuns |-> [m \in 1..Len(MIGRATIONS) |-> 0], faulted |-> FALSE, faults |-> 0]

MigAfter(g, d, r) ==
    [pre |-> d.disk, post |-> r.db.disk, ran |-> r.ran, raised |-> r.raised,
     failed |-> r.failed,
     bodyRuns |-> [m \in 1..Len(MIGRATIONS) |->
                      g.bodyRuns[m] + IF MIGRATIONS[m].version \in r.ran THEN 1 ELSE 0],
     faulted |-> g.faulted \/ r.raised,
     faults |-> g.faults + IF r.raised THEN 1 ELSE 0]

DbInit ==
    /\ db = FreshDb
    /\ app = [up |-> FALSE, raised |-> "none"]
    /\ expected = EmptyStore
    /\ mig = MigInit

\* IronLogApp.startup: a new process, a new connection, Database.initialize()
Startup ==
    /\ ~app.up
    /\ \E fault \in MigrationFaults :
        /\ fault # NoFault => mig.faults < MaxFaults
        /\ LET d == [disk |-> db.disk, conn |-> db.disk]
               r == apply_migrations(d, now, fault)
           IN
            /\ fault # NoFault => r.raised
            /\ db' = r.db
            /\ mig' = MigAfter(mig, d, r)
            /\ app' = [up |-> ~r.raised, raised |-> IF r.raised THEN "Exception" ELSE "none"]
    /\ UNCHANGED expected
    /\ DbFrame

\* the process ends; what the connection had not committed is gone
Quit ==
    /\ app.up
    /\ db' = [disk |-> db.disk, conn |-> db.disk]
    /\ app' = [up |-> FALSE, raised |-> "none"]
    /\ UNCHANGED <<expected, mig>>
    /\ DbFrame

\* AppStateRepository.set
AppSet ==
    /\ app.up
    /\ "app_state" \in db.conn.tables
    /\ \E key \in Keys, value \in Values, fault \in ScopeFaults :
        /\ db' = transaction(db, app_upsert(db.conn, key, value), fault)
        /\ expected' = IF fault = "none" THEN app_upsert(expected, key, value) ELSE expected
        /\ app' = [app EXCEPT !.raised = fault]
    /\ UNCHANGED mig
    /\ DbFrame

\* AppStateRepository.delete
AppDelete ==
    /\ app.up
    /\ "app_state" \in db.conn.tables
    /\ \E key \in Keys, fault \in ScopeFaults :
        /\ db' = transaction(db, app_delete(db.conn, key), fault)
        /\ expected' = IF fault = "none" THEN app_delete(expected, key) ELSE expected
        /\ app' = [app EXCEPT !.raised = fault]
    /\ UNCHANGED mig
    /\ DbFrame

\* AppStateRepository.clear_all
clear_all(st) == [st EXCEPT !.app_state = EmptyMap]

AppClearAll ==
    /\ app.up
    /\ "app_state" \in db.conn.tables
    /\ \E fault \in ScopeFaults :
        /\ db' = transaction(db, clear_all(db.conn), fault)
        /\ expected' = IF fault = "none" THEN clear_all(expected) ELSE expected
        /\ app' = [app EXCEPT !.raised = fault]
    /\ UNCHANGED mig
    /\ DbFrame

\* settings: _reset_all_data = Database.reset() (close, unlink, initialize)
\* followed by Database.initialize(); an exception is caught and shown
ResetAllData ==
    /\ app.up
    /\ \E fault \in MigrationFaults :
        /\ fault # NoFault => mig.faults < MaxFaults
        /\ LET r1 == apply_migrations(FreshDb, now, fault)
               g1 == MigAfter([MigInit EXCEPT !.faults = mig.faults], FreshDb, r1)
               r2 == apply_migrations(r1.db, now, NoFault)
           IN
            /\ fault # NoFault => r1.raised
            /\ IF r1.raised
               THEN /\ db' = r1.db
                    /\ mig' = g1
               ELSE /\ db' = r2.db
                    /\ mig' = MigAfter(g1, r1.db, r2)
            /\ app' = [app EXCEPT !.raised = IF r1.raised THEN "Exception" ELSE "none"]
    /\ expected' = EmptyStore
    /\ DbFrame

\* AppStateRepository.set("timer_state", text)
SetTimerText ==
    /\ app.up
    /\ "app_state" \in db.conn.tables
    /\ \E text \in TimerTexts :
        /\ db' = transaction(db, app_upsert(db.conn, "timer_state", text), "none")
        /\ expected' = app_upsert(expected, "timer_state", text)
        /\ app' = [app EXCEPT !.raised = "none"]
    /\ UNCHANGED mig
    /\ DbFrame

\* AppStateRepository.get_timer_state(): last holds the text that was read
\* and what the call returned, app.raised the exception that left it
GetTimerState ==
    /\ app.up
    /\ "app_state" \in db.conn.tables
    /\ last' = [op |-> "get_timer_state",
                arg |-> app_get(db.conn, "timer_state"),
                ret |-> get_timer_state(db.conn)]
    /\ app' = [app EXCEPT !.raised = get_timer_state_raises(db.conn)]
    /\ UNCHANGED <<db, expected, mig>>
    /\ UNCHANGED <<now, state, call, observed, ghost, view, ref, ui, ids>>

StateNext == AppSet \/ AppDelete \/ AppClearAll \/ SetTimerText \/ GetTimerState

DbNext == Startup \/ Quit \/ AppSet \/ AppDelete \/ AppClearAll \/ ResetAllData

\* --------------------------------------------------------- specifications
Idle ==
    /\ app = [up |-> FALSE, raised |-> "none"]
    /\ expected = EmptyStore
    /\ mig = MigInit

NoApp ==
    /\ ui = NoUi
    /\ ids = NoIds
    /\ last = NoCall

\* the store as Database.initialize() leaves a new database file
ViewStore == apply_migrations(FreshDb, 0, NoFault).db.disk

\* the ids the seeding has taken
IdsOf(st) ==
    [templates |-> Cardinality(st.workout_templates),
     template_exercises |-> Cardinality(st.template_exercises),
     sessions |-> Cardinality(st.workout_sessions),
     session_exercises |-> Cardinality(st.session_exercises),
     sets |-> Cardinality(st.sets),
     ops |-> 0]

\* the app has started on a new database file and shows the home tab
ViewInit ==
    /\ now = 0
    /\ state = initial
    /\ db = [disk |-> ViewStore, conn |-> ViewStore]
    /\ view = [NoView EXCEPT !.event = "init"]
    /\ ref = initial
    /\ \E home \in create_home_tab(ViewStore) : ui = Screen("tabs", home)
    /\ ids = IdsOf(ViewStore)
    /\ last = NoCall

Init ==
    /\ TimerInit
    /\ db = [disk |-> ViewStore, conn |-> ViewStore]
    /\ view = NoView
    /\ ref = initial
    /\ Idle
    /\ NoApp

Next == TimerNext

Spec == Init /\ [][Next]_vars

InitView ==
    /\ ViewInit
    /\ call = [op |-> "init", arg |-> None, pre |-> "Stopped", ret |-> None, notified |-> 0]
    /\ observed = [count |-> 0, last |-> None]
    /\ ghost = GhostInit
    /\ Idle

SpecView == InitView /\ [][ViewNext]_vars

\* The store of an app that has been in use: of the seeded templates the
\* user has kept Push Day, with the first KeptExercises of its exercises.
UsedStore ==
    LET kept == CHOOSE row \in ViewStore.workout_templates : row.name = SeedTemplates[1].name
        template == (CHOOSE loaded \in template_get_by_id(ViewStore, kept.id) : TRUE)[1]
        a == CHOOSE row \in ViewStore.workout_templates : row.id # kept.id
        b == CHOOSE row \in ViewStore.workout_templates : row.id \notin {kept.id, a.id}
    IN  template_save(template_delete(template_delete(ViewStore, a.id), b.id),
                      [template EXCEPT !.exercises = SubSeq(@, 1, KeptExercises)])

\* the app has started on that store and shows the home tab
InitApp ==
    /\ now = 0
    /\ state = initial
    /\ db = [disk |-> UsedStore, conn |-> UsedStore]
    /\ view = [NoView EXCEPT !.event = "init"]
    /\ ref = initial
    /\ \E home \in create_home_tab(UsedStore) : ui = Screen("tabs", home)
    /\ ids = IdsOf(ViewStore)
    /\ last = NoCall
    /\ call = [op |-> "init", arg |-> None, pre |-> "Stopped", ret |-> None, notified |-> 0]
    /\ observed = [count |-> 0, last |-> None]
    /\ ghost = GhostInit
    /\ Idle

SpecApp == InitApp /\ [][AppNext]_vars

SpecKill == InitApp /\ [][KillNext]_vars

\* the used store after start_empty_workout and _add_exercise("Squats"):
\* an active session without template, its first exercise, the two keys
SessionStore ==
    LET session == WorkoutSession_create({}, 0, None, Nothing)
        exercise == SessionExercise_create({}, session.id, "Squats", 0, TRUE)
        s1 == session_save(UsedStore, session)
        s2 == set_active_session_id(s1, Some(session.id))
        s3 == set_timer_state(s2, Some(start(initial, 0).state))
    IN  save_exercise(s3, exercise)

\* the app has started on that store and shows the home tab with the card
\* of the active session
InitSession ==
    /\ now = 0
    /\ state = initial
    /\ db = [disk |-> SessionStore, conn |-> SessionStore]
    /\ view = [NoView EXCEPT !.event = "init"]
    /\ ref = start(initial, 0).state
    /\ \E home \in create_home_tab(SessionStore) : ui = Screen("tabs", home)
    /\ ids = [IdsOf(ViewStore) EXCEPT !.sessions = 1, !.session_exercises = 1]
    /\ last = NoCall
    /\ call = [op |-> "init", arg |-> None, pre |-> "Stopped", ret |-> None, notified |-> 0]
    /\ observed = [count |-> 0, last |-> None]
    /\ ghost = GhostInit
    /\ Idle

SpecSession == InitSession /\ [][SessionNext]_vars

\* the event loop runs a scheduled _timer_tick
FairSpecView == SpecView /\ WF_vars(TimerTick)

InitDb ==
    /\ DbInit
    /\ now = 0
    /\ state = initial
    /\ call = [op |-> "init", arg |-> None, pre |-> "Stopped", ret |-> None, notified |-> 0]
    /\ observed = [count |-> 0, last |-> None]
    /\ ghost = GhostInit
    /\ view = NoView
    /\ ref = initial
    /\ NoApp

SpecDb == InitDb /\ [][DbNext]_vars

\* The store the repositories are called on: UsedStore and a workout in
\* progress that was saved with the id and the name of the kept template and
\* has got an exercise with a set.
RepoStore ==
    LET kept == CHOOSE row \in UsedStore.workout_templates : TRUE
        session == WorkoutSession_create({}, 0, kept.id, Some(kept.name))
        exercise == SessionExercise_create({}, session.id,
                                           CHOOSE name \in ExerciseNames : TRUE, 0, TRUE)
        workout_set == Set_create({}, exercise.id, CHOOSE reps \in Reps : TRUE,
                                  CHOOSE weight \in Weights : weight # None, 0)
    IN  save_set(save_exercise(session_save(UsedStore, session), exercise), workout_set)

\* the app_state repository of a running app
InitState ==
    /\ db = [disk |-> ViewStore, conn |-> ViewStore]
    /\ app = [up |-> TRUE, raised |-> "none"]
    /\ expected = ViewStore
    /\ mig = MigInit
    /\ now = 0
    /\ state = initial
    /\ call = [op |-> "init", arg |-> None, pre |-> "Stopped", ret |-> None, notified |-> 0]
    /\ observed = [count |-> 0, last |-> None]
    /\ ghost = GhostInit
    /\ view = NoView
    /\ ref = initial
    /\ NoApp

SpecState == InitState /\ [][StateNext]_vars

InitRepo ==
    /\ now = 0
    /\ db = [disk |-> RepoStore, conn |-> RepoStore]
    /\ ids = [IdsOf(ViewStore) EXCEPT !.sessions = 1, !.session_exercises = 1, !.sets = 1]
    /\ last = NoCall
    /\ state = initial
    /\ call = [op |-> "init", arg |-> None, pre |-> "Stopped", ret |-> None, notified |-> 0]
    /\ observed = [count |-> 0, last |-> None]
    /\ ghost = GhostInit
    /\ view = NoView
    /\ ref = initial
    /\ ui = NoUi
    /\ Idle

SpecRepo == InitRepo /\ [][RepoNext]_vars

\* ------------------------------------------------------------------ claims
\* a step that is a call of the timer API method op
CallStep(op) == ghost'.calls = ghost.calls + 1 /\ call'.op = op

ExactlyOneKind(s) ==
    Cardinality({k \in {"Stopped", "Running", "Paused"} :
                    \/ k = "Stopped" /\ is_stopped(s)
                    \/ k = "Running" /\ is_running(s)
                    \/ k = "Paused" /\ is_paused(s)}) = 1

C1_Step ==
    /\ ExactlyOneKind(state')
    /\ CallStep("start") =>
          IF Kind(state) = "Stopped"
          THEN /\ Kind(state') = "Running"
               /\ state'.start_time = now
               /\ state'.accumulated_seconds = 0
          ELSE state' = state
    /\ CallStep("pause") =>
          IF Kind(state) = "Running" THEN Kind(state') = "Paused" ELSE state' = state
    /\ CallStep("resume") =>
          IF Kind(state) = "Paused" THEN Kind(state') = "Running" ELSE state' = state
    /\ CallStep("stop") =>
          IF Kind(state) \in {"Running", "Paused"} THEN Kind(state') = "Stopped"
          ELSE state' = state

\* C1: the timer is always in exactly one of Stopped, Running, Paused; start
\* takes Stopped to Running with start_time = now and accumulated_seconds = 0,
\* pause takes Running to Paused, resume takes Paused to Running, stop takes
\* Running or Paused to Stopped; every other call of start, pause, resume or
\* stop leaves the whole TimerState unchanged.
C1_StateMachine == [][C1_Step]_vars

\* a start() on a Running timer has been ignored after start, pause, resume
C1_Witness ==
    /\ call.op = "start"
    /\ call.pre = "Running"
    /\ ghost.changes = 3
    /\ state.start_time > 0

\* C2: from an effective start() on, through any pause()/resume() calls, the
\* elapsed time is the time the clock advanced while the timer was Running -
\* exactly in clock ticks, and truncated to whole seconds in elapsed_seconds -
\* and a stop() returns that value.
C2_Additivity ==
    ghost.tracked =>
        /\ ghost.phase \in {"Running", "Paused"} =>
              /\ calculate_elapsed(state, now) = ghost.total
              /\ elapsed_seconds(state, now) = ghost.total \div TicksPerSecond
        /\ ghost.phase = "Paused" => state.accumulated_seconds = ghost.total
        /\ (call.op = "stop" /\ call.pre # "Stopped") =>
              call.ret = ghost.total \div TicksPerSecond

\* running, paused while the clock advanced, running again
C2_Witness ==
    /\ ghost.tracked
    /\ ghost.phase = "Running"
    /\ call.op = "resume"
    /\ ghost.total >= 2
    /\ state.accumulated_seconds >= 1
    /\ now > state.start_time
    /\ now > ghost.total

\* C3: while the timer is Paused, elapsed_seconds is the value read right
\* after the call that paused it, however far the clock has advanced since.
C3_PausePlateau ==
    ghost.phase = "Paused" => elapsed_seconds(state, now) = ghost.plateau

\* paused after a full second, and the clock has advanced since the pause
C3_Witness ==
    /\ ghost.phase = "Paused"
    /\ call.op = "pause"
    /\ ghost.plateau >= 1
    /\ now > state.pause_time

C4_Step ==
    (CallStep("stop") /\ Kind(state) \in {"Running", "Paused"}) =>
        /\ call'.ret =
              IF Kind(state) = "Running"
              THEN (state.accumulated_seconds + (now - state.start_time)) \div TicksPerSecond
              ELSE state.accumulated_seconds \div TicksPerSecond
        /\ state' = initial
        /\ elapsed_seconds(state', now') = 0

\* C4: stop() on a Running or Paused timer returns the final elapsed seconds
\* (accumulated_seconds + (now - start_time) if Running, accumulated_seconds
\* if Paused) and leaves exactly the initial Stopped snapshot, so that
\* elapsed_seconds reads 0.
C4_StopReturnsElapsed == [][C4_Step]_vars

\* a stop() of a Running timer that had banked time returned a full second
C4_Witness ==
    /\ call.op = "stop"
    /\ call.pre = "Running"
    /\ call.ret >= 1
    /\ ghost.changes = 4
    /\ state = initial

\* a call that is a transition of the documented state machine
Effective(c) ==
    \/ c.op = "start" /\ c.pre = "Stopped"
    \/ c.op = "pause" /\ c.pre = "Running"
    \/ c.op = "resume" /\ c.pre = "Paused"
    \/ c.op = "stop" /\ c.pre # "Stopped"
    \/ c.op = "restore"

TimerOps == {"start", "pause", "resume", "stop", "restore"}

C7_RestartTransparent ==
    view.open =>
        /\ Kind(state) = Kind(ref)
        /\ elapsed_seconds(state, now) = elapsed_seconds(ref, now)
        /\ calculate_elapsed(state, now) = calculate_elapsed(ref, now)

\* the view was built again after a pause and a resume, and time has passed
C7_Witness ==
    /\ view.open
    /\ view.event = "continue"
    /\ Kind(state) = "Running"
    /\ state.accumulated_seconds >= 1
    /\ now > state.start_time

\* C8: whenever the timer of the view on screen is Running, a display
\* refresh tick is delivered later on, unless the timer is paused or stopped
\* or the view is left first.
Ticking == view.open /\ is_running(state)

C8_TicksWhileRunning == Ticking ~> (view.event = "tick" \/ ~Ticking)

\* C9: the durable app_state is what the scopes that were left normally have
\* written, so that no write of a failed scope is ever visible, and after a
\* scope that was left normally nothing is left uncommitted.
C9_TransactionAtomic ==
    /\ db.disk.app_state = expected.app_state
    /\ (app.up /\ app.raised = "none") => db.conn = db.disk

Versions(st) == {row.version : row \in st.schema_version}

Migrated(st) ==
    /\ "schema_version" \in st.tables
    /\ Versions(st) = {MIGRATIONS[m].version : m \in 1..Len(MIGRATIONS)}

SeededOnce(st) ==
    /\ Cardinality(st.workout_templates) = Len(SeedTemplates)
    /\ \A i \in 1..Len(SeedTemplates) :
          \E row \in st.workout_templates :
              /\ row.name = SeedTemplates[i].name
              /\ Cardinality({ex \in st.template_exercises : ex.template_id = row.id})
                    = Len(SeedTemplates[i].exercises)

C11_MigrationFailureAborts ==
    /\ mig.raised <=> mig.failed # 0
    /\ mig.raised =>
          /\ mig.failed \notin Versions(mig.post)
          /\ \A v \in mig.ran : v <= mig.failed
          /\ \A v \in mig.ran : v < mig.failed => v \in Versions(mig.post)
          /\ Versions(mig.pre) \subseteq Versions(mig.post)

\* the second migration has failed after the first one was applied in the same run
C11_Witness ==
    /\ mig.raised
    /\ mig.failed = 2
    /\ mig.ran = {1, 2}
    /\ Versions(mig.post) = {1}

\* C12: template round trip. After TemplateRepository.save(template), of a
\* new template or of one that was saved before, get_by_id(template.id)
\* returns exactly the saved object: the same id, name and created_at and the
\* same exercises (id, template_id, name, order_index, uses_weight) in the
\* order of the in-memory list.
C12_TemplateRoundTrip ==
    last.op = "template_save" =>
        template_get_by_id(db.conn, last.arg[1].id) = {Some(last.arg[1])}

\* a template that was saved before comes back renamed, with its two
\* exercises in order, the second one toggled to bodyweight
C12_Witness ==
    /\ last.op = "template_save"
    /\ last.arg[1].name = "Renamed"
    /\ Len(last.arg[1].exercises) = 2
    /\ last.arg[1].exercises[1].order_index < last.arg[1].exercises[2].order_index
    /\ ~last.arg[1].exercises[2].uses_weight
    /\ Some(last.arg[1]) \in template_get_by_id(db.conn, last.arg[1].id)

\* C13 as stated: session round trip. After SessionRepository.save(session)
\* get_by_id(session.id) can return the saved object, with every parent
\* field and every exercise and set of the in-memory aggregate in order.
C13_SessionRoundTrip ==
    (last.op = "session_save" /\ last.ret = Nothing) =>
        Some(last.arg[1]) \in session_get_by_id(db.conn, last.arg[1].id)

\* C13, amended: SessionRepository.save(session) writes the parent row only.
\* get_by_id(session.id) then returns the parent fields of the saved object
\* (template_id, template_name, started_at, ended_at, duration_seconds,
\* notes) and, as exercises and sets, the rows that save_exercise and
\* save_set had written for the session before the call, in their order; the
\* exercises of the in-memory object are reproduced only if they are those rows.
C13_SessionSaveParentOnly ==
    [][(last'.op = "session_save" /\ last'.ret = Nothing /\ ids'.ops # ids.ops) =>
          LET session == last'.arg[1] IN
          session_get_by_id(db'.conn, session.id) =
              {Some([session EXCEPT !.exercises = exercises]) :
                  exercises \in load_exercises(db.conn, session.id)}]_vars

\* a loaded session with an exercise and a set is saved with notes and
\* comes back whole
C13_Witness ==
    /\ last.op = "session_save"
    /\ last.arg[1].notes = Some("notes")
    /\ Len(last.arg[1].exercises) = 1
    /\ Len(last.arg[1].exercises[1].sets) = 1
    /\ session_get_by_id(db.conn, last.arg[1].id) = {Some(last.arg[1])}

\* C14: template save replacement. After TemplateRepository.save(t) the
\* template_exercises rows of t.id are exactly the rows of the in-memory list
\* t.exercises, so an exercise that was persisted and is no longer in the
\* list is gone, and the rows of every other template are as they were.
C14_TemplateSaveReplaces ==
    [][(last'.op = "template_save" /\ ids'.ops # ids.ops) =>
          LET t == last'.arg[1] IN
          /\ {row \in db'.conn.template_exercises : row.template_id = t.id}
                 = template_exercise_rows(t)
          /\ {row \in db'.conn.template_exercises : row.template_id # t.id}
                 = {row \in db.conn.template_exercises : row.template_id # t.id}
          /\ \A loaded \in template_get_by_id(db'.conn, t.id) :
                 loaded # Nothing /\ loaded[1].exercises = t.exercises]_vars

\* the kept template was saved without its first exercise, which is gone,
\* while another template has its exercise
C14_Witness ==
    /\ last.op = "template_save"
    /\ Len(last.arg[1].exercises) = KeptExercises - 1
    /\ \E row \in UsedStore.template_exercises :
          /\ row.template_id = last.arg[1].id
          /\ row.order_index = 0
          /\ row.id \notin {x.id : x \in db.conn.template_exercises}
    /\ \E row \in db.conn.template_exercises : row.template_id # last.arg[1].id

\* a store without orphans: every template exercise has its template, every
\* session exercise its session, every set its session exercise
NoOrphans(st) ==
    /\ \A row \in st.template_exercises :
          \E parent \in st.workout_templates : parent.id = row.template_id
    /\ \A row \in st.session_exercises :
          \E parent \in st.workout_sessions : parent.id = row.session_id
    /\ \A row \in st.sets :
          \E parent \in st.session_exercises : parent.id = row.session_exercise_id

\* C15: cascade. No state has an orphan, neither in what the connection
\* sees nor in what is durable (a delete and its cascade are one
\* transaction): deleting a template removes its template_exercises, deleting
\* a session its session_exercises and their sets, deleting a session
\* exercise its sets; get_by_id of the deleted parent then returns None.
C15_Cascade ==
    /\ NoOrphans(db.conn)
    /\ NoOrphans(db.disk)
    /\ last.op = "template_delete" =>
          /\ template_get_by_id(db.conn, last.arg[1]) = {Nothing}
          /\ \A row \in db.conn.template_exercises : row.template_id # last.arg[1]
    /\ last.op = "session_delete" =>
          /\ session_get_by_id(db.conn, last.arg[1]) = {Nothing}
          /\ \A row \in db.conn.session_exercises : row.session_id # last.arg[1]
    /\ last.op = "delete_exercise" =>
          /\ \A row \in db.conn.session_exercises : row.id # last.arg[1]
          /\ \A row \in db.conn.sets : row.session_exercise_id # last.arg[1]

\* the session of the initial store, which had an exercise with a set, was
\* deleted: its exercise and the set are gone from the durable store
C15_Witness ==
    /\ last.op = "session_delete"
    /\ \E row \in RepoStore.session_exercises :
          /\ row.session_id = last.arg[1]
          /\ \E x \in RepoStore.sets : x.session_exercise_id = row.id
    /\ db.disk.session_exercises = {}
    /\ db.disk.sets = {}

\* C16: a session's template_name snapshot survives the deletion and the
\* rename of the template. TemplateRepository.delete(id) leaves every
\* session in place, the ones started from the template with template_id
\* NULL and nothing else changed, and no exercise or set of a session is
\* touched; TemplateRepository.save, a rename included, changes no session
\* row, session exercise or set.
C16_SnapshotSurvives ==
    [][/\ (last'.op = "template_delete" /\ now' = now) =>
            /\ db'.conn.workout_sessions =
                   {IF row.template_id = last'.arg[1]
                    THEN [row EXCEPT !.template_id = None] ELSE row :
                       row \in db.conn.workout_sessions}
            /\ db'.conn.session_exercises = db.conn.session_exercises
            /\ db'.conn.sets = db.conn.sets
       /\ (last'.op = "template_save" /\ ids'.ops # ids.ops) =>
            /\ db'.conn.workout_sessions = db.conn.workout_sessions
            /\ db'.conn.session_exercises = db.conn.session_exercises
            /\ db'.conn.sets = db.conn.sets]_vars

\* the template of the initial store was deleted after a call that had
\* written something: the session started from it is there with template_id
\* NULL, the name it was started under, its exercise and its set
C16_Witness ==
    /\ last.op = "template_delete"
    /\ \E old \in RepoStore.workout_sessions, row \in db.conn.workout_sessions :
          /\ old.template_id = last.arg[1]
          /\ row = [old EXCEPT !.template_id = None]
          /\ row.template_name = Some(SeedTemplates[1].name)
          /\ \E ex \in db.conn.session_exercises :
                /\ ex.session_id = row.id
                /\ \E x \in db.conn.sets : x.session_exercise_id = ex.id
    /\ ids.ops > 0

\* C17: duplicate(id, new_name). For an existing template it persists and
\* returns a new template with a fresh id, the given name and one child per
\* child of the source, each with a fresh id and the name, order_index and
\* uses_weight of its source child; the source template and its children,
\* and every other row, are as they were. For a missing id it returns None
\* and writes nothing.
C17_Duplicate ==
    [][(last'.op = "duplicate" /\ ids'.ops # ids.ops) =>
          LET template_id == last'.arg[1][1]
              new_name == last'.arg[1][2]
              old_ids == {row.id : row \in db.conn.template_exercises}
          IN
          IF \A row \in db.conn.workout_templates : row.id # template_id
          THEN last'.ret = Nothing /\ db' = db
          ELSE /\ last'.ret # Nothing
               /\ LET copy == last'.ret[1] IN
                  /\ \A row \in db.conn.workout_templates : row.id # copy.id
                  /\ copy.name = new_name
                  /\ template_get_by_id(db'.conn, copy.id) = {Some(copy)}
                  /\ \A i \in 1..Len(copy.exercises) :
                        /\ copy.exercises[i].id \notin old_ids
                        /\ copy.exercises[i].template_id = copy.id
                        /\ \A j \in 1..Len(copy.exercises) :
                              copy.exercises[i].id = copy.exercises[j].id => i = j
                  /\ \A original \in template_get_by_id(db.conn, template_id) :
                        /\ Len(copy.exercises) = Len(original[1].exercises)
                        /\ \A i \in 1..Len(copy.exercises) :
                              /\ copy.exercises[i].name = original[1].exercises[i].name
                              /\ copy.exercises[i].order_index
                                     = original[1].exercises[i].order_index
                              /\ copy.exercises[i].uses_weight
                                     = original[1].exercises[i].uses_weight
                  /\ db'.conn.workout_templates \ db.conn.workout_templates
                        = {[id |-> copy.id, name |-> copy.name,
                            created_at |-> copy.created_at]}
                  /\ db.conn.workout_templates \subseteq db'.conn.workout_templates
                  /\ {row \in db'.conn.template_exercises : row.template_id # copy.id}
                        = db.conn.template_exercises
                  /\ db'.conn.workout_sessions = db.conn.workout_sessions]_vars

\* a template with two exercises, the first toggled to bodyweight, was
\* duplicated, and the source is still there with its two exercises
C17_Witness ==
    /\ last.op = "duplicate"
    /\ last.ret # Nothing
    /\ last.ret[1].name \in CopyNames
    /\ Len(last.ret[1].exercises) = 2
    /\ ~last.ret[1].exercises[1].uses_weight
    /\ last.ret[1].exercises[2].uses_weight
    /\ Cardinality({row \in db.conn.template_exercises :
                       row.template_id = last.arg[1][1]}) = 2


\* C18: application invariant. At most one session is active (ended_at
\* unset) at any time, whatever sequence of start-empty-workout,
\* start-from-template (home tab or template edit view), end-workout and
\* discard actions the user takes.
C18_AtMostOneActive ==
    Cardinality({row \in db.conn.workout_sessions : row.ended_at = None}) <= 1

\* C19: get_active() returns None when no session has ended_at unset, and
\* otherwise a session with ended_at unset that no other such session has a
\* greater started_at than, loaded with its exercises and sets as get_by_id
\* loads it; a session that end_session has ended is never returned.
C19_GetActive ==
    LET active == {row \in db.conn.workout_sessions : row.ended_at = None} IN
    /\ active = {} => get_active(db.conn) = {Nothing}
    /\ active # {} =>
          \A found \in get_active(db.conn) :
              /\ found # Nothing
              /\ is_active(found[1])
              /\ \A row \in active : row.started_at <= found[1].started_at
              /\ found \in session_get_by_id(db.conn, found[1].id)
    /\ last.op = "end_session" =>
          \A found \in get_active(db.conn) :
              found = Nothing \/ found[1].id # last.arg[1][1]

\* two sessions are active, one of them was started later and has an
\* exercise: get_active returns that one with its exercise
C19_Witness ==
    /\ Cardinality({row \in db.conn.workout_sessions : row.ended_at = None}) = 2
    /\ \E older \in db.conn.workout_sessions :
          /\ older.ended_at = None
          /\ \A found \in get_active(db.conn) :
                /\ found # Nothing
                /\ found[1].started_at > older.started_at
                /\ Len(found[1].exercises) = 1

\* C20: end_session(id, d) on an existing session sets ended_at to the
\* current time, which is not null, and duration_seconds to d, so that the
\* reloaded session is not active; every other field of the session, its
\* exercises and sets with their order, every other session and every other
\* table are as they were.
C20_EndSession ==
    [][(last'.op = "end_session" /\ now' = now) =>
          LET session_id == last'.arg[1][1]
              d == last'.arg[1][2]
          IN
          /\ session_get_by_id(db'.conn, session_id) =
                 {Some([before[1] EXCEPT !.ended_at = now, !.duration_seconds = d]) :
                     before \in session_get_by_id(db.conn, session_id)}
          /\ \A loaded \in session_get_by_id(db'.conn, session_id) :
                 /\ loaded # Nothing
                 /\ loaded[1].ended_at # None
                 /\ loaded[1].duration_seconds = d
                 /\ ~is_active(loaded[1])
          /\ {row \in db'.conn.workout_sessions : row.id # session_id}
                 = {row \in db.conn.workout_sessions : row.id # session_id}
          /\ db'.conn.session_exercises = db.conn.session_exercises
          /\ db'.conn.sets = db.conn.sets
          /\ db'.conn.workout_templates = db.conn.workout_templates
          /\ db'.conn.template_exercises = db.conn.template_exercises]_vars

\* the session with an exercise and a set was ended with 60 seconds at a
\* time after its start, while another session is active
C20_Witness ==
    /\ last.op = "end_session"
    /\ last.arg[1][2] = 60
    /\ \E loaded \in session_get_by_id(db.conn, last.arg[1][1]) :
          /\ loaded # Nothing
          /\ ~is_active(loaded[1])
          /\ loaded[1].ended_at > loaded[1].started_at
          /\ loaded[1].duration_seconds = 60
          /\ Len(loaded[1].exercises) = 1
          /\ Len(loaded[1].exercises[1].sets) = 1
    /\ \E row \in db.conn.workout_sessions :
          row.id # last.arg[1][1] /\ row.ended_at = None

\* C21: get_last_weight_for_exercise(name) returns the weight of a set with
\* the greatest created_at among the sets, of all sessions, that have a
\* weight and whose session exercise has exactly that name, and None if
\* there is no such set; other sets do not count.
C21_LastWeight ==
    \A name \in LoggedNames :
        LET counted == {s \in db.conn.sets :
                           /\ s.weight # None
                           /\ \E se \in db.conn.session_exercises :
                                 se.id = s.session_exercise_id /\ se.name = name}
            newest == {s \in counted : \A other \in counted :
                                           other.created_at <= s.created_at}
        IN  /\ counted = {} => get_last_weight_for_exercise(db.conn, name) = {None}
            /\ counted # {} =>
                  get_last_weight_for_exercise(db.conn, name) = {s.weight : s \in newest}

\* an exercise of another name has a later set with another weight: the
\* answer for the first name is still the weight of its own set
C21_Witness ==
    \E s \in db.conn.sets, later \in db.conn.sets :
        \E se \in db.conn.session_exercises, other \in db.conn.session_exercises :
            /\ se.id = s.session_exercise_id
            /\ other.id = later.session_exercise_id
            /\ other.name # se.name
            /\ later.created_at > s.created_at
            /\ later.weight \notin {None, s.weight}
            /\ get_last_weight_for_exercise(db.conn, se.name) = {s.weight}
            /\ get_last_weight_for_exercise(db.conn, other.name) = {later.weight}

\* the ledger of a store holds the versions 1..k of MIGRATIONS, one row each
LedgerIsPrefix(st) ==
    /\ Cardinality(st.schema_version) <= Len(MIGRATIONS)
    /\ Versions(st) = {MIGRATIONS[m].version : m \in 1..Cardinality(st.schema_version)}

\* C22: migrations are applied in strictly increasing version order and only
\* for versions above the highest recorded one: a run calls the migrations
\* of the versions that follow the recorded ones, none left out, and in
\* every state, also after a startup that was cut short, the ledger holds a
\* prefix 1..k of MIGRATIONS with one row per version.
C22_LedgerPrefix ==
    /\ LedgerIsPrefix(db.disk)
    /\ LedgerIsPrefix(db.conn)
    /\ LedgerIsPrefix(mig.post)
    /\ \A v \in mig.ran :
          /\ v > get_current_version(mig.pre)
          /\ \A u \in (get_current_version(mig.pre) + 1)..v : u \in mig.ran

\* a startup was cut short, and the next one has called the one migration
\* that was not recorded and completed the ledger
C22_Witness ==
    /\ app.up
    /\ mig.faulted
    /\ ~mig.raised
    /\ Versions(mig.pre) = {1}
    /\ mig.ran = {2}
    /\ Versions(db.disk) = {1, 2}
    /\ Cardinality(db.disk.schema_version) = 2

\* C23: re-execution safety. A startup in which a migration body was
\* committed and its ledger row was not, followed by a startup that runs
\* the migration again, leaves the store as one uninterrupted run does: a
\* migrated store has each seeded template, with its exercises, once.
C23_ReexecutionSafe ==
    Migrated(db.disk) => SeededOnce(db.disk)

\* the text is the JSON of an object with the five fields of a snapshot,
\* its two times null or ISO timestamps
well_formed(value) ==
    /\ DOMAIN value = {"is_running", "is_paused", "start_time", "pause_time",
                       "accumulated_seconds"}
    /\ value.start_time = null \/ is_iso(value.start_time)
    /\ value.pause_time = null \/ is_iso(value.pause_time)

\* C24: whatever text that is not a well-formed snapshot is stored under
\* the key timer_state (invalid JSON, JSON that is not an object, a missing
\* field, a start_time or pause_time that is no ISO timestamp),
\* get_timer_state() raises nothing and returns None.
C24_MalformedReadsAsNone ==
    (/\ last.op = "get_timer_state"
     /\ last.arg # Nothing
     /\ ~well_formed(last.arg[1])) =>
        /\ app.raised \notin {"TypeError", "ValueError", "KeyError", "JSONDecodeError"}
        /\ last.ret = Nothing

\* the order_index values of a template's rows in a store
order_indices(st, template_id) ==
    {row.order_index : row \in {r \in st.template_exercises : r.template_id = template_id}}

\* the rows of every template are numbered 0..n-1, no number twice
Contiguous(st) ==
    \A t \in st.workout_templates :
        LET rows == {r \in st.template_exercises : r.template_id = t.id}
        IN  /\ order_indices(st, t.id) = 0..(Cardinality(rows) - 1)
            /\ \A r1, r2 \in rows : r1.order_index = r2.order_index => r1 = r2

\* C25: in every reachable state the order_index values of each template's
\* exercises are exactly 0..n-1, each once: in the stored rows and in the
\* template the edit view holds, after any sequence of the template
\* handlers on the seeded store.
C25_OrderContiguous ==
    /\ Contiguous(db.conn)
    /\ Contiguous(db.disk)
    /\ ui.template # Nothing =>
          \A i \in 1..Len(ui.template[1].exercises) :
              ui.template[1].exercises[i].order_index = i - 1

\* the first seeded exercise was deleted and an exercise added after that:
\* the second seeded exercise is at 0, the added one at 1
C25_Witness ==
    \E t \in db.conn.workout_templates :
        \E r0, r1 \in db.conn.template_exercises :
            /\ r0.template_id = t.id /\ r1.template_id = t.id
            /\ r0.order_index = 0 /\ r0.name = SeedTemplates[1].exercises[2][1]
            /\ r1.order_index = 1 /\ r1.name \in ExerciseNames
            /\ order_indices(db.conn, t.id) = {0, 1}

\* C26: every stored set that was logged through the app has a weight
\* exactly if its session exercise has uses_weight set, and its reps are a
\* positive integer.
C26_SetShape ==
    \A s \in db.conn.sets :
        /\ s.reps > 0
        /\ \A se \in db.conn.session_exercises :
              se.id = s.session_exercise_id => ((s.weight # None) <=> (se.uses_weight = 1))

\* name, order_index and uses_weight of the rows of a set
shape(rows) ==
    {[name |-> r.name, order_index |-> r.order_index, uses_weight |-> r.uses_weight] :
        r \in rows}

\* C27: a start from a template with n >= 1 exercises (home tab or edit
\* view) raises nothing and leaves one new active session whose n session
\* exercises have the names, order_index and uses_weight of the template's
\* exercises; no session_exercises row is without its workout_sessions row.
C27_StartFromTemplate ==
    [][(/\ last'.op = "start_with_template"
        /\ ids'.ops # ids.ops
        /\ \E tex \in db'.conn.template_exercises :
              tex.template_id = last'.arg[1].template_id) =>
          LET session == last'.arg[1]
              of_template == {r \in db'.conn.template_exercises :
                                r.template_id = session.template_id}
              of_session == {r \in db'.conn.session_exercises : r.session_id = session.id}
          IN  /\ last'.ret = Nothing
              /\ \E row \in db'.conn.workout_sessions :
                    /\ row.id = session.id
                    /\ row.ended_at = None
                    /\ row \notin db.conn.workout_sessions
              /\ Cardinality(of_session) = Cardinality(of_template)
              /\ shape(of_session) = shape(of_template)
              /\ NoOrphans(db'.conn)]_vars

\* the key active_session_id names the session get_active returns, if any,
\* and the key timer_state is held only while a session is active
KeysFollowSessions(st) ==
    LET key == app_get(st, "active_session_id")
        active == get_active(st)
    IN  /\ key = Nothing <=> active = {Nothing}
        /\ key # Nothing => \A found \in active : found # Nothing /\ found[1].id = key[1]
        /\ active = {Nothing} => app_get(st, "timer_state") = Nothing

\* C28: after every completed start, end or discard of a workout the key
\* active_session_id is held exactly if get_active() returns a session, and
\* holds the id of that session; the key timer_state is not held when no
\* session is active.
C28_KeysFollowSessions ==
    [][(/\ last'.op \in {"session_save", "start_with_template", "end_session",
                         "session_delete"}
        /\ db'.conn.workout_sessions # db.conn.workout_sessions) =>
          KeysFollowSessions(db'.conn)]_vars

\* C29: the elapsed time survives a kill inside end-workout. After a kill
\* at any point of the sequence stop(), end_session, clear
\* active_session_id, clear timer_state and the restart, the session is
\* either ended with the duration stop() returned, or it is still active
\* and the timer of its view, once the view is built again, shows at least
\* the seconds that had elapsed at the kill, not a count from zero.
C29_KillKeepsElapsed ==
    last.op = "end_workout_killed" =>
        LET session_id == last.arg[1][1]
            returned == last.arg[1][2]
        IN  \A row \in db.disk.workout_sessions :
                row.id = session_id =>
                    \/ row.ended_at # None /\ row.duration_seconds = returned
                    \/ /\ row.ended_at = None
                       /\ (view.open /\ view.session_id = session_id) =>
                              elapsed_seconds(state, now) >= returned

\* C30: within one session the order_index values of the stored session
\* exercises are pairwise distinct after any sequence of add-exercise and
\* delete-exercise actions, so that loading the session gives one order,
\* the order in which the exercises were added.
C30_DistinctOrder ==
    \A r1, r2 \in db.conn.session_exercises :
        (r1.session_id = r2.session_id /\ r1.order_index = r2.order_index) => r1.id = r2.id
====
